---- MODULE Spec2Model ----
(***************************************************************************)
(* Backend of the educational content platform: the vector index with its  *)
(* tenant filter, the content generator with its approval state machine,   *)
(* and the student-facing reads, modelled from src/app.                    *)
(*                                                                         *)
(* Python None is the record None; an optional value x is Some(x).  A JSON *)
(* object is [obj |-> f] with f a function from keys to values.            *)
(***************************************************************************)
EXTENDS Integers, Sequences, FiniteSets, TLC

VARIABLES materiais, enviados, indice, conteudos, criados, tentativas, sessoes, chamada, resp,
          limitador, relogio, admitidos, divisao

vars == <<materiais, enviados, indice, conteudos, criados, tentativas, sessoes, chamada, resp,
          limitador, relogio, admitidos, divisao>>

\* The rate limiter, the clock it reads and the record of what it admitted.
varsLimite == <<limitador, relogio, admitidos>>

-----------------------------------------------------------------------------
(* Bounds of the model *)

MaxConteudos == 2

MaxMateriais == 2

MaxK == 2

EmbDim == 3

-----------------------------------------------------------------------------
(* Values *)

None == [none |-> TRUE]

Some(x) == [some |-> x]

\* Python truthiness of an optional list (modelled as a set): None and [] are
\* false.
Truthy(o) == o # None /\ o.some # {}

\* Python truthiness of an optional string: None and "" are false.
TruthyStr(o) == o # None /\ o.some # ""

\* Python truthiness of an optional dict: None and {} are false.
TruthyDict(o) == o # None /\ DOMAIN o.some # {}

Professores == {"p1", "p2"}

Disciplinas == {"d1", "d2"}

QUIZ == "QUIZ"

RESUMO == "RESUMO"

FLASHCARD == "FLASHCARD"

TipoConteudo == {QUIZ, RESUMO, FLASHCARD}

AGUARDANDO_APROVACAO == "AGUARDANDO_APROVACAO"

APROVADO == "APROVADO"

REJEITADO == "REJEITADO"

StatusConteudo == {AGUARDANDO_APROVACAO, APROVADO, REJEITADO}

\* datetime.now(timezone.utc): an opaque timestamp.
Agora == "agora"

RECURSIVE Rep(_, _)
Rep(s, n) ==
    IF n = 0 THEN ""
    ELSE IF n = 1 THEN s
    ELSE LET h == Rep(s, n \div 2) IN h \o h \o (IF n % 2 = 1 THEN s ELSE "")

ConteudoIds == 1..MaxConteudos

MaterialIds == 1..MaxMateriais

-----------------------------------------------------------------------------
(* Vector index: VectorStoreService *)

\* SentenceTransformer.encode: one vector per text, the same text always gives
\* the same vector.  A vector is a point of 0..EmbDim-1.
gerar_embedding(texto) == Len(texto) % EmbDim

\* Cosine distance between two vectors.
Distancia(a, b) == IF a > b THEN a - b ELSE b - a

\* adicionar_documentos: the entries of one material, ids {material_id}_{i} for
\* i = 0 .. len(chunks) - 1.
EntradasDe(chunks, professor_id, material_id, disciplina, titulo) ==
    { [id |-> <<material_id, i - 1>>,
       texto |-> chunks[i],
       metadata |-> [professor_id |-> professor_id,
                     material_id |-> material_id,
                     disciplina |-> disciplina,
                     titulo |-> titulo,
                     chunk_index |-> i - 1]] : i \in 1..Len(chunks) }

\* The where filter of buscar_similares, with the professor filter dropped when
\* explicit material ids are given.
WhereFilterSemProfessor(e, professor_id, disciplina, material_ids) ==
    IF Truthy(material_ids)
    THEN e.metadata.material_id \in material_ids.some
    ELSE /\ e.metadata.professor_id = professor_id
         /\ (TruthyStr(disciplina) => e.metadata.disciplina = disciplina.some)

\* The where filter of buscar_similares: always the professor; then the
\* material ids when given (disciplina ignored), else the disciplina when given.
WhereFilter(e, professor_id, disciplina, material_ids) ==
    /\ e.metadata.professor_id = professor_id
    /\ IF Truthy(material_ids)
       THEN e.metadata.material_id \in material_ids.some
       ELSE (TruthyStr(disciplina) => e.metadata.disciplina = disciplina.some)

\* collection.query(n_results = k): the k nearest of the candidates, nearest
\* first; entries at the same distance come in any order.
RECURSIVE Vizinhos(_, _, _)
Vizinhos(cands, q, k) ==
    IF k = 0 \/ cands = {}
    THEN {<<>>}
    ELSE LET dmin == CHOOSE d \in {Distancia(gerar_embedding(e.texto), q) : e \in cands} :
                        \A e \in cands : d <= Distancia(gerar_embedding(e.texto), q)
             perto == {e \in cands : Distancia(gerar_embedding(e.texto), q) = dmin}
         IN  UNION { { <<e>> \o r : r \in Vizinhos(cands \ {e}, q, k - 1) } : e \in perto }

\* One formatted result of buscar_similares.
Documento(e, q) ==
    [texto |-> e.texto,
     metadata |-> e.metadata,
     distancia |-> Distancia(gerar_embedding(e.texto), q),
     score |-> 1 - Distancia(gerar_embedding(e.texto), q)]

\* buscar_similares on index idx: the possible result lists.
buscar_similares(idx, query, professor_id, k, disciplina, material_ids) ==
    LET q == gerar_embedding(query)
        cands == {e \in idx : WhereFilter(e, professor_id, disciplina, material_ids)}
    IN  { [i \in 1..Len(r) |-> Documento(r[i], q)] : r \in Vizinhos(cands, q, k) }

-----------------------------------------------------------------------------
(* Content generator: GeradorService *)

\* k of _buscar_contexto.
KContexto == 5

\* String(500) of the topico column.
TopicoMax == 500

Separador == "\n\n---\n\n"

RECURSIVE Juntar(_)
Juntar(textos) ==
    IF textos = <<>> THEN ""
    ELSE IF Len(textos) = 1 THEN textos[1]
    ELSE textos[1] \o Separador \o Juntar(Tail(textos))

\* A service outcome that raises GeradorError(msg).
Falha(msg) == [erro |-> msg]

ErroNaoEncontrado == "Conteudo nao encontrado"

ErroNenhumMaterial == "Nenhum material encontrado"

ErroBusca == "Erro ao buscar contexto"

ErroLLM == "Erro LLM"

ErroBanco == "Erro ao gerar"

ErroAprovar == "Conteudo nao pode ser aprovado"

ErroRejeitar == "Conteudo nao pode ser rejeitado"

\* The search _buscar_contexto makes: the topico as query, k = 5.
DocumentosContexto(idx, professor_id, topico, disciplina, material_ids) ==
    buscar_similares(idx, topico, professor_id, KContexto, Some(disciplina), material_ids)

\* _buscar_contexto: the possible outcomes, the context string or a failure.
\* vs_ok is false when the vector store raises VectorStoreError.
buscar_contexto(idx, professor_id, topico, disciplina, material_ids, vs_ok) ==
    IF ~vs_ok
    THEN {Falha(ErroBusca)}
    ELSE { IF documentos = <<>>
           THEN Falha(ErroNenhumMaterial)
           ELSE [contexto |-> Juntar([i \in 1..Len(documentos) |-> documentos[i].texto])]
           : documentos \in DocumentosContexto(idx, professor_id, topico, disciplina,
                                               material_ids) }

\* _obter_material_ids_usados taking explicit ids as given, without the query
\* of the professor's Material rows.
ObterIdsSemConsulta(mats, professor_id, disciplina, material_ids) ==
    IF Truthy(material_ids)
    THEN material_ids.some
    ELSE {m \in DOMAIN mats : mats[m].professor_id = professor_id
                              /\ mats[m].disciplina = disciplina}

\* _obter_material_ids_usados: explicit ids restricted to the professor's own
\* materials (disciplina not re-applied), else all of the professor's materials
\* of the disciplina.
obter_material_ids_usados(mats, professor_id, disciplina, material_ids) ==
    IF Truthy(material_ids)
    THEN {m \in DOMAIN mats : m \in material_ids.some /\ mats[m].professor_id = professor_id}
    ELSE {m \in DOMAIN mats : mats[m].professor_id = professor_id
                              /\ mats[m].disciplina = disciplina}

\* The ConteudoGerado row built by gerar_*, created already approved.
NovoConteudoAprovado(professor_id, tipo, topico, disciplina, resultado, material_ids_usados) ==
    [professor_id |-> professor_id,
     tipo |-> tipo,
     topico |-> topico,
     disciplina |-> disciplina,
     conteudo_json |-> resultado,
     status |-> APROVADO,
     material_fonte_ids |-> material_ids_usados,
     aprovado_em |-> Some(Agora),
     modificacoes_professor |-> None,
     motivo_rejeicao |-> None]

\* The ConteudoGerado row built by gerar_quiz, gerar_resumo and gerar_flashcards;
\* the columns not given take their defaults (NULL).
NovoConteudo(professor_id, tipo, topico, disciplina, resultado, material_ids_usados) ==
    [professor_id |-> professor_id,
     tipo |-> tipo,
     topico |-> topico,
     disciplina |-> disciplina,
     conteudo_json |-> resultado,
     status |-> AGUARDANDO_APROVACAO,
     material_fonte_ids |-> material_ids_usados,
     aprovado_em |-> None,
     modificacoes_professor |-> None,
     motivo_rejeicao |-> None]

\* Payloads the generation adapter returns after its validation, by kind.
Questao1 ==
    [pergunta |-> "P1", alternativas |-> [a |-> "x", b |-> "y"],
     resposta_correta |-> "a", explicacao |-> "E1"]

Questao2 ==
    [pergunta |-> "P2", alternativas |-> [a |-> "u", b |-> "v"],
     resposta_correta |-> "B", explicacao |-> "E2"]

Questao3 ==
    [pergunta |-> "P3", alternativas |-> [a |-> "r", b |-> "s"],
     resposta_correta |-> "b", explicacao |-> "E3"]

ResultadoLLM(tipo) ==
    IF tipo = QUIZ THEN [obj |-> [questoes |-> <<Questao1, Questao2>>]]
    ELSE IF tipo = RESUMO
    THEN [obj |-> [resumo |-> [introducao |-> "i", desenvolvimento |-> <<"p1", "p2">>,
                               conclusao |-> "c"]]]
    ELSE [obj |-> [flashcards |-> <<[frente |-> "f", verso |-> "v"]>>]]

\* What a generation request meets outside the store: the rate limiter refuses
\* it, the vector store raises, the generation adapter raises, or all answer.
Ambiente == {"limitado", "vs_erro", "llm_erro", "ok"}

Admitido(amb) == amb # "limitado"

VsOk(amb) == amb # "vs_erro"

Llm(amb, tipo) == IF amb = "ok" THEN Some(ResultadoLLM(tipo)) ELSE None

\* gerar_quiz / gerar_resumo / gerar_flashcards of the service: the possible
\* outcomes, a failure (nothing added to the session) or the row to persist.
\* The commit fails, and is rolled back, when topico does not fit its column.
gerar_conteudo(mats, idx, professor_id, tipo, topico, disciplina, material_ids, vs_ok, llm) ==
    { IF "erro" \in DOMAIN c THEN c
      ELSE IF llm = None THEN Falha(ErroLLM)
      ELSE IF Len(topico) > TopicoMax THEN Falha(ErroBanco)
      ELSE [conteudo |-> NovoConteudo(professor_id, tipo, topico, disciplina, llm.some,
                  obter_material_ids_usados(mats, professor_id, disciplina, material_ids))]
      : c \in buscar_contexto(idx, professor_id, topico, disciplina, material_ids, vs_ok) }

\* The query of the content routes, without the professor_id filter.
BuscarSemDono(cs, conteudo_id, professor_id) ==
    IF conteudo_id \in DOMAIN cs THEN Some(cs[conteudo_id]) ELSE None

\* db.query(ConteudoGerado).filter(id == conteudo_id,
\*                                 professor_id == professor.id).first()
BuscarDoProfessor(cs, conteudo_id, professor_id) ==
    IF conteudo_id \in DOMAIN cs /\ cs[conteudo_id].professor_id = professor_id
    THEN Some(cs[conteudo_id])
    ELSE None

\* {**a, **b} with the operands swapped.
MesclarInvertido(a, b) ==
    [k \in DOMAIN a \cup DOMAIN b |-> IF k \in DOMAIN a THEN a[k] ELSE b[k]]

\* {**a, **b}
Mesclar(a, b) ==
    [k \in DOMAIN a \cup DOMAIN b |-> IF k \in DOMAIN b THEN b[k] ELSE a[k]]

\* The status check of aprovar_conteudo and rejeitar_conteudo, left out.
PendenteSempre(c) == TRUE

\* conteudo.status != AGUARDANDO_APROVACAO raises.
Pendente(c) == c.status = AGUARDANDO_APROVACAO

\* The attribute writes of aprovar_conteudo on the loaded row c, as the columns
\* written.  TypeError when a payload patch is given and the patch or the stored
\* payload is not a dict.
EscritasAprovar(c, modificacoes) ==
    LET base == [status |-> APROVADO, aprovado_em |-> Some(Agora)]
    IN  IF ~TruthyDict(modificacoes) THEN [escritas |-> base]
        ELSE LET m == modificacoes.some
                 comMods == Mesclar(base, [modificacoes_professor |-> Some(m)])
             IN  IF "conteudo_json" \notin DOMAIN m THEN [escritas |-> comMods]
                 ELSE IF "obj" \notin DOMAIN m["conteudo_json"]
                         \/ "obj" \notin DOMAIN c.conteudo_json
                 THEN [excecao |-> "TypeError"]
                 ELSE [escritas |-> Mesclar(comMods,
                          [conteudo_json |->
                              [obj |-> Mesclar(c.conteudo_json.obj, m["conteudo_json"].obj)]])]

\* The attribute writes of rejeitar_conteudo.
EscritasRejeitar(c, motivo) ==
    [escritas |-> [status |-> REJEITADO, motivo_rejeicao |-> Some(motivo)]]

\* UPDATE ... WHERE id = :id AND status = 'AGUARDANDO_APROVACAO': a commit that
\* compares the status again.
AtualizarSePendente(c, escritas) ==
    IF c.status = AGUARDANDO_APROVACAO
    THEN [f \in DOMAIN c |-> IF f \in DOMAIN escritas THEN escritas[f] ELSE c[f]]
    ELSE c

\* commit: UPDATE of the written columns of one row.
Atualizar(c, escritas) ==
    [f \in DOMAIN c |-> IF f \in DOMAIN escritas THEN escritas[f] ELSE c[f]]

\* aprovar_conteudo of the service: a failure, an exception, or the row after
\* the commit.
aprovar_conteudo(cs, conteudo_id, professor_id, modificacoes) ==
    LET achado == BuscarDoProfessor(cs, conteudo_id, professor_id)
    IN  IF achado = None THEN Falha(ErroNaoEncontrado)
        ELSE IF ~Pendente(achado.some) THEN Falha(ErroAprovar)
        ELSE LET e == EscritasAprovar(achado.some, modificacoes)
             IN  IF "excecao" \in DOMAIN e THEN e
                 ELSE [conteudo |-> Atualizar(achado.some, e.escritas)]

\* rejeitar_conteudo of the service.
rejeitar_conteudo(cs, conteudo_id, professor_id, motivo) ==
    LET achado == BuscarDoProfessor(cs, conteudo_id, professor_id)
    IN  IF achado = None THEN Falha(ErroNaoEncontrado)
        ELSE IF ~Pendente(achado.some) THEN Falha(ErroRejeitar)
        ELSE [conteudo |-> Atualizar(achado.some,
                                     EscritasRejeitar(achado.some, motivo).escritas)]

\* The topic regenerar_conteudo passes on.
TopicoAjustado(topico, ajustes) == topico \o " - Ajuste: " \o ajustes

\* regenerar_conteudo refusing an original that is not pending.
RegenerarSoPendente(cs, mats, idx, conteudo_id, professor_id, ajustes, amb) ==
    LET achado == BuscarDoProfessor(cs, conteudo_id, professor_id)
    IN  IF achado = None \/ ~Pendente(achado.some) THEN {Falha(ErroNaoEncontrado)}
        ELSE gerar_conteudo(mats, idx, professor_id, achado.some.tipo,
                            TopicoAjustado(achado.some.topico, ajustes),
                            achado.some.disciplina,
                            Some(achado.some.material_fonte_ids), VsOk(amb),
                            Llm(amb, achado.some.tipo))

\* regenerar_conteudo of the service: the original is read with the owner
\* filter, whatever its status, and a generation of the same kind is run with
\* the adjusted topic and the original's material ids.  The number of questions
\* or cards is read with conteudo_json.get, an AttributeError when the stored
\* payload is no dict.
regenerar_conteudo(cs, mats, idx, conteudo_id, professor_id, ajustes, amb) ==
    LET achado == BuscarDoProfessor(cs, conteudo_id, professor_id)
    IN  IF achado = None THEN {Falha(ErroNaoEncontrado)}
        ELSE IF achado.some.tipo \in {QUIZ, FLASHCARD}
                /\ "obj" \notin DOMAIN achado.some.conteudo_json
        THEN {[excecao |-> "AttributeError"]}
        ELSE gerar_conteudo(mats, idx, professor_id, achado.some.tipo,
                            TopicoAjustado(achado.some.topico, ajustes),
                            achado.some.disciplina,
                            Some(achado.some.material_fonte_ids), VsOk(amb),
                            Llm(amb, achado.some.tipo))

gerar_quiz(mats, idx, professor_id, topico, disciplina, material_ids, vs_ok, llm) ==
    gerar_conteudo(mats, idx, professor_id, QUIZ, topico, disciplina, material_ids, vs_ok, llm)

gerar_resumo(mats, idx, professor_id, topico, disciplina, material_ids, vs_ok, llm) ==
    gerar_conteudo(mats, idx, professor_id, RESUMO, topico, disciplina, material_ids, vs_ok, llm)

gerar_flashcards(mats, idx, professor_id, topico, disciplina, material_ids, vs_ok, llm) ==
    gerar_conteudo(mats, idx, professor_id, FLASHCARD, topico, disciplina, material_ids, vs_ok, llm)

-----------------------------------------------------------------------------
(* Routes of the teacher: routers/conteudos.py.  Each route is an operator
   from the store and the request to the possible outcomes
   [resp, conteudos, criados], and an action that takes one of them. *)

\* min_length of RejeitarConteudoRequest.motivo and RegenerarConteudoRequest.ajustes
MinMotivo == 10

MinAjustes == 10

MaxTexto == 1000

Resp(http, detail) == [http |-> http, detail |-> detail]

ErroRateLimit == "Rate limit excedido"

ErroValidacao == "validation error"

ErroInterno == "Internal Server Error"

\* db.add + commit of a new row under a fresh id.
Inserir(cs, id, c) == [i \in DOMAIN cs \cup {id} |-> IF i = id THEN c ELSE cs[i]]

\* commit of the changed row.
Gravar(cs, id, c) == [cs EXCEPT ![id] = c]

\* db.delete + commit.
Apagar(cs, id) == [i \in DOMAIN cs \ {id} |-> cs[i]]

Efeito(r, cs, n) == [resp |-> r, conteudos |-> cs, criados |-> n]

\* A generation that raised GeradorError and still left its row in the store.
RespostaGeracaoParcial(cs, n, resultados) ==
    { IF "erro" \in DOMAIN r
      THEN Efeito(Resp(400, r.erro), Inserir(cs, n + 1,
                  NovoConteudo("p1", QUIZ, "", "d1", [obj |-> <<>>], {})), n + 1)
      ELSE Efeito(Resp(201, ""), Inserir(cs, n + 1, r.conteudo), n + 1)
      : r \in resultados }

\* The tail shared by the three generation routes and the regeneration route:
\* GeradorError becomes 400 and nothing is stored, another exception 500, a
\* created row 201.
RespostaGeracao(cs, n, resultados) ==
    { IF "erro" \in DOMAIN r
      THEN Efeito(Resp(400, r.erro), cs, n)
      ELSE IF "excecao" \in DOMAIN r
      THEN Efeito(Resp(500, ErroInterno), cs, n)
      ELSE Efeito(Resp(201, ""), Inserir(cs, n + 1, r.conteudo), n + 1)
      : r \in resultados }

\* A request refused by check_rate_limit.
Limitado(cs, n) == {Efeito(Resp(429, ErroRateLimit), cs, n)}

\* POST /api/conteudos/gerar/quiz
RotaGerarQuiz(cs, n, mats, idx, pd, amb) ==
    IF ~Admitido(amb) THEN Limitado(cs, n)
    ELSE RespostaGeracao(cs, n,
             gerar_quiz(mats, idx, pd.professor, pd.topico, pd.disciplina,
                        pd.material_ids, VsOk(amb), Llm(amb, QUIZ)))

\* POST /api/conteudos/gerar/resumo
RotaGerarResumo(cs, n, mats, idx, pd, amb) ==
    IF ~Admitido(amb) THEN Limitado(cs, n)
    ELSE RespostaGeracao(cs, n,
             gerar_resumo(mats, idx, pd.professor, pd.topico, pd.disciplina,
                          pd.material_ids, VsOk(amb), Llm(amb, RESUMO)))

\* POST /api/conteudos/gerar/flashcards
RotaGerarFlashcards(cs, n, mats, idx, pd, amb) ==
    IF ~Admitido(amb) THEN Limitado(cs, n)
    ELSE RespostaGeracao(cs, n,
             gerar_flashcards(mats, idx, pd.professor, pd.topico, pd.disciplina,
                              pd.material_ids, VsOk(amb), Llm(amb, FLASHCARD)))

\* The tail shared by the approve and reject routes: GeradorError becomes 400,
\* any other exception 500 with the session closed uncommitted.
RespostaRevisao(cs, n, conteudo_id, r) ==
    IF "erro" \in DOMAIN r THEN Efeito(Resp(400, r.erro), cs, n)
    ELSE IF "excecao" \in DOMAIN r THEN Efeito(Resp(500, ErroInterno), cs, n)
    ELSE Efeito(Resp(200, ""), Gravar(cs, conteudo_id, r.conteudo), n)

\* PUT /api/conteudos/{conteudo_id}/aprovar
RotaAprovar(cs, n, conteudo_id, professor, modificacoes) ==
    RespostaRevisao(cs, n, conteudo_id,
                    aprovar_conteudo(cs, conteudo_id, professor, modificacoes))

\* RejeitarConteudoRequest: motivo of 10 to 1000 characters.
MotivoValido(motivo) == Len(motivo) >= MinMotivo /\ Len(motivo) <= MaxTexto

\* PUT /api/conteudos/{conteudo_id}/rejeitar
RotaRejeitar(cs, n, conteudo_id, professor, motivo) ==
    IF ~MotivoValido(motivo) THEN Efeito(Resp(422, ErroValidacao), cs, n)
    ELSE RespostaRevisao(cs, n, conteudo_id,
                         rejeitar_conteudo(cs, conteudo_id, professor, motivo))

\* RegenerarConteudoRequest: ajustes of 10 to 1000 characters.
AjustesValidos(ajustes) == Len(ajustes) >= MinAjustes /\ Len(ajustes) <= MaxTexto

\* POST /api/conteudos/{conteudo_id}/regerar
RotaRegenerar(cs, n, mats, idx, conteudo_id, professor, ajustes, amb) ==
    IF ~AjustesValidos(ajustes) THEN {Efeito(Resp(422, ErroValidacao), cs, n)}
    ELSE IF ~Admitido(amb) THEN Limitado(cs, n)
    ELSE RespostaGeracao(cs, n,
             regenerar_conteudo(cs, mats, idx, conteudo_id, professor, ajustes, amb))

\* GET /api/conteudos/{conteudo_id}
RotaObter(cs, n, conteudo_id, professor) ==
    IF BuscarDoProfessor(cs, conteudo_id, professor) = None
    THEN Efeito(Resp(404, ErroNaoEncontrado), cs, n)
    ELSE Efeito(Resp(200, ""), cs, n)

\* DELETE /api/conteudos/{conteudo_id}
RotaRemover(cs, n, conteudo_id, professor) ==
    IF BuscarDoProfessor(cs, conteudo_id, professor) = None
    THEN Efeito(Resp(404, ErroNaoEncontrado), cs, n)
    ELSE Efeito(Resp(204, ""), Apagar(cs, conteudo_id), n)

\* The store and the response take the outcome e; ids are issued up to
\* MaxConteudos.  The attempts of a deleted row go with it
\* (cascade="all, delete-orphan").
Efetuar(e) ==
    /\ e.criados <= MaxConteudos
    /\ conteudos' = e.conteudos
    /\ criados' = e.criados
    /\ resp' = e.resp
    /\ tentativas' = SelectSeq(tentativas, LAMBDA t : t.conteudo_id \in DOMAIN e.conteudos)
    /\ UNCHANGED <<materiais, enviados, indice, sessoes, chamada, divisao>>

\* A route whose rate-limit check is taken as an outcome of its environment.
Aplicar(e) == Efetuar(e) /\ UNCHANGED varsLimite

GerarQuiz(pd, amb) ==
    \E e \in RotaGerarQuiz(conteudos, criados, materiais, indice, pd, amb) : Aplicar(e)

GerarResumo(pd, amb) ==
    \E e \in RotaGerarResumo(conteudos, criados, materiais, indice, pd, amb) : Aplicar(e)

GerarFlashcards(pd, amb) ==
    \E e \in RotaGerarFlashcards(conteudos, criados, materiais, indice, pd, amb) : Aplicar(e)

Aprovar(conteudo_id, professor, modificacoes) ==
    \E e \in {RotaAprovar(conteudos, criados, conteudo_id, professor, modificacoes)} :
        Aplicar(e)

Rejeitar(conteudo_id, professor, motivo) ==
    \E e \in {RotaRejeitar(conteudos, criados, conteudo_id, professor, motivo)} :
        Aplicar(e)

Regenerar(conteudo_id, professor, ajustes, amb) ==
    \E e \in RotaRegenerar(conteudos, criados, materiais, indice, conteudo_id, professor,
                           ajustes, amb) : Aplicar(e)

Obter(conteudo_id, professor) ==
    \E e \in {RotaObter(conteudos, criados, conteudo_id, professor)} : Aplicar(e)

Remover(conteudo_id, professor) ==
    \E e \in {RotaRemover(conteudos, criados, conteudo_id, professor)} : Aplicar(e)

-----------------------------------------------------------------------------
(* Generation adapter: LLMService (app/services/llm.py).  A generation request
   runs in steps, one for each POST to the backend; the step that ends the
   adapter's call also runs the rest of the service method and of the route. *)

\* max_retries of gerar_resposta.
MaxRetries == 3

\* range(3) of gerar_quiz, gerar_resumo and gerar_flashcards.
TentativasFormato == 3

\* Generation requests served step by step.
MaxGeracoes == 1

\* No generation request in flight.
Ociosa == [fase |-> "ociosa"]

\* What one POST to the backend meets: httpx.TimeoutException,
\* httpx.ConnectError, a status other than 200 (any other exception), or a
\* body with its response text.
Timeout == [falha |-> "timeout"]

Conexao == [falha |-> "conexao"]

StatusErro == [falha |-> "status"]

\* A response text, given by what json.loads makes of each string
\* _extrair_json tries in turn: the stripped text, the contents of its code
\* block, the text from the first { to the last }, and that text with its
\* trailing commas removed.  None: the string is not there or does not parse.
TextoLLM(direto, bloco, chaves, reparado) ==
    [texto |-> [direto |-> direto, bloco |-> bloco, chaves |-> chaves,
                reparado |-> reparado]]

\* _extrair_json: the first of the four that parses, None for LLMError.
extrair_json(texto) ==
    IF texto.direto # None THEN texto.direto
    ELSE IF texto.bloco # None THEN texto.bloco
    ELSE IF texto.chaves # None THEN texto.chaves
    ELSE texto.reparado

\* The key each kind's validation looks for.
ChaveDe(tipo) ==
    IF tipo = QUIZ THEN "questoes" ELSE IF tipo = RESUMO THEN "resumo" ELSE "flashcards"

\* What may stand before and after a key in the strings of the model.
Afixos == {"", "as ", " do quiz"}

\* k in s for two str.
Contem(s, k) == \E a, b \in Afixos : s = a \o k \o b

\* `if chave not in resultado: raise LLMError`: membership of a key in a dict,
\* of an element in a list, of a substring in a str; a TypeError on a number.
Validar(v, chave) ==
    IF "obj" \in DOMAIN v
    THEN IF chave \in DOMAIN v.obj THEN "ok" ELSE "LLMError"
    ELSE IF "arr" \in DOMAIN v
    THEN IF \E i \in DOMAIN v.arr : v.arr[i] = [str |-> chave] THEN "ok" ELSE "LLMError"
    ELSE IF "str" \in DOMAIN v
    THEN IF Contem(v.str, chave) THEN "ok" ELSE "LLMError"
    ELSE "TypeError"

\* One pass of the loop of gerar_resposta, at attempt t with the backend
\* meeting r: the text is returned, the loop goes around, or last_error is
\* raised (after ConnectError's break or the last attempt).
PassoResposta(t, r) ==
    IF "texto" \in DOMAIN r THEN [retorna |-> r.texto]
    ELSE IF r = Conexao THEN [levanta |-> "LLMError"]
    ELSE IF t + 1 < MaxRetries THEN [repete |-> t + 1]
    ELSE [levanta |-> "LLMError"]

\* A call of gerar_quiz / gerar_resumo / gerar_flashcards of the adapter about
\* to make a POST: attempt of its own loop, tentativa of gerar_resposta's,
\* pedidos made so far, and what the last one met.
Pedindo(tipo, pd, attempt, tentativa, pedidos, ultima) ==
    [fase |-> "pedindo", tipo |-> tipo, pd |-> pd, attempt |-> attempt,
     tentativa |-> tentativa, pedidos |-> pedidos, ultima |-> ultima]

\* The call over: resultado is [payload |-> v] or [excecao |-> name].
Fim(c, r, resultado) ==
    [fase |-> "fim", tipo |-> c.tipo, pd |-> c.pd, attempt |-> c.attempt,
     tentativa |-> c.tentativa, pedidos |-> c.pedidos + 1, ultima |-> r,
     resultado |-> resultado]

\* The loop of the type-specific call c after its POST met r: an LLMError from
\* gerar_resposta, _extrair_json or the validation starts the next attempt, and
\* is raised at the last; any other exception leaves the loop at once.
PassoGeracao(c, r) ==
    LET p == PassoResposta(c.tentativa, r)
        j == IF "retorna" \in DOMAIN p THEN extrair_json(p.retorna) ELSE None
        v == IF "levanta" \in DOMAIN p \/ j = None THEN "LLMError"
             ELSE Validar(j.some, ChaveDe(c.tipo))
    IN  IF "repete" \in DOMAIN p
        THEN Pedindo(c.tipo, c.pd, c.attempt, p.repete, c.pedidos + 1, r)
        ELSE IF v = "ok" THEN Fim(c, r, [payload |-> j.some])
        ELSE IF v = "TypeError" THEN Fim(c, r, [excecao |-> "TypeError"])
        ELSE IF c.attempt = TentativasFormato - 1 THEN Fim(c, r, [excecao |-> "LLMError"])
        ELSE Pedindo(c.tipo, c.pd, c.attempt + 1, 0, c.pedidos + 1, r)

\* The rest of GeradorService.gerar_* after the adapter's call and of the
\* route after the service's: LLMError and any other exception become
\* GeradorError (400); the row is committed with the payload as returned; the
\* route answers 201, or 500 when ConteudoResponse (conteudo_json: dict) does
\* not validate the stored row.
concluir_geracao(cs, n, mats, c) ==
    IF "excecao" \in DOMAIN c.resultado
    THEN Efeito(Resp(400, IF c.resultado.excecao = "LLMError" THEN ErroLLM ELSE ErroBanco),
                cs, n)
    ELSE IF Len(c.pd.topico) > TopicoMax THEN Efeito(Resp(400, ErroBanco), cs, n)
    ELSE LET novo == NovoConteudo(c.pd.professor, c.tipo, c.pd.topico, c.pd.disciplina,
                         c.resultado.payload,
                         obter_material_ids_usados(mats, c.pd.professor, c.pd.disciplina,
                                                   c.pd.material_ids))
         IN  Efeito(IF "obj" \in DOMAIN c.resultado.payload THEN Resp(201, "")
                    ELSE Resp(500, ErroInterno),
                    Inserir(cs, n + 1, novo), n + 1)

\* POST /api/conteudos/gerar/{quiz,resumo,flashcards} up to the adapter's first
\* POST: the rate limit and the context search.
IniciarGeracao(tipo, pd, amb) ==
    /\ chamada.fase # "pedindo"
    /\ criados < MaxGeracoes
    /\ \E c \in IF ~Admitido(amb) THEN {Falha(ErroRateLimit)}
                ELSE buscar_contexto(indice, pd.professor, pd.topico, pd.disciplina,
                                     pd.material_ids, VsOk(amb)) :
          IF "erro" \in DOMAIN c
          THEN /\ resp' = Resp(IF Admitido(amb) THEN 400 ELSE 429, c.erro)
               /\ chamada' = chamada
          ELSE /\ resp' = resp
               /\ chamada' = Pedindo(tipo, pd, 0, 0, 0, None)
    /\ UNCHANGED <<materiais, enviados, indice, conteudos, criados, tentativas, sessoes,
                   varsLimite, divisao>>

\* One POST of the call in flight meets r.
PedirBackend(r) ==
    /\ chamada.fase = "pedindo"
    /\ LET c == PassoGeracao(chamada, r)
       IN  /\ chamada' = c
           /\ IF c.fase = "fim"
              THEN LET e == concluir_geracao(conteudos, criados, materiais, c)
                   IN  /\ conteudos' = e.conteudos
                       /\ criados' = e.criados
                       /\ resp' = e.resp
              ELSE UNCHANGED <<conteudos, criados, resp>>
    /\ UNCHANGED <<materiais, enviados, indice, tentativas, sessoes, varsLimite, divisao>>

-----------------------------------------------------------------------------
(* Approve and reject served by several server processes, each with its own
   database session: the row is read and checked at one step and committed at
   a later one, and another process may run in between. *)

Processos == {"w1", "w2"}

Ocioso == [fase |-> "ocioso"]

\* A request that has been answered.
Feito(op, conteudo_id, r) ==
    [fase |-> "feito", op |-> op, conteudo_id |-> conteudo_id, resposta |-> r]

\* The request validation, the query, the two checks and the attribute writes
\* of an approve (arg: the edits) or a reject (arg: the reason) in process w.
\* A refused request is answered at once; else the writes wait in w's session.
Ler(w, op, conteudo_id, professor, arg) ==
    /\ sessoes[w].fase # "lido"
    /\ LET achado == BuscarDoProfessor(conteudos, conteudo_id, professor)
           e == IF op = "aprovar" THEN EscritasAprovar(achado.some, arg)
                ELSE EscritasRejeitar(achado.some, arg)
           recusa == IF op = "rejeitar" /\ ~MotivoValido(arg)
                     THEN Some(Resp(422, ErroValidacao))
                     ELSE IF achado = None THEN Some(Resp(400, ErroNaoEncontrado))
                     ELSE IF ~Pendente(achado.some)
                     THEN Some(Resp(400, IF op = "aprovar" THEN ErroAprovar
                                         ELSE ErroRejeitar))
                     ELSE IF "excecao" \in DOMAIN e THEN Some(Resp(500, ErroInterno))
                     ELSE None
       IN  IF recusa # None
           THEN /\ sessoes' = [sessoes EXCEPT ![w] = Feito(op, conteudo_id, recusa.some)]
                /\ resp' = recusa.some
           ELSE /\ sessoes' = [sessoes EXCEPT ![w] =
                                  [fase |-> "lido", op |-> op,
                                   conteudo_id |-> conteudo_id,
                                   escritas |-> e.escritas]]
                /\ resp' = resp
    /\ UNCHANGED <<materiais, enviados, indice, conteudos, criados, tentativas, chamada,
                   varsLimite, divisao>>

\* db.commit() and db.refresh() of process w: the UPDATE writes the columns the
\* session changed, whatever the row holds by now; it finds no row when the
\* row was deleted meanwhile (StaleDataError, 500).
Confirmar(w) ==
    /\ sessoes[w].fase = "lido"
    /\ LET s == sessoes[w]
           r == IF s.conteudo_id \in DOMAIN conteudos THEN Resp(200, "")
                ELSE Resp(500, ErroInterno)
       IN  /\ conteudos' = IF s.conteudo_id \in DOMAIN conteudos
                           THEN Gravar(conteudos, s.conteudo_id,
                                       Atualizar(conteudos[s.conteudo_id], s.escritas))
                           ELSE conteudos
           /\ sessoes' = [sessoes EXCEPT ![w] = Feito(s.op, s.conteudo_id, r)]
           /\ resp' = r
    /\ UNCHANGED <<materiais, enviados, indice, criados, tentativas, chamada, varsLimite, divisao>>

-----------------------------------------------------------------------------
(* Student routes: app/routers/alunos.py.  Each route is an operator from the
   store and the request to the answer [rota, http, detail, corpo]. *)

MaxTentativas == 1

Alunos == {"a1", "a2"}

ErroQuiz == "Quiz nao encontrado ou nao aprovado"

ErroFlashcards == "Flashcards nao encontrados ou nao aprovados"

ErroResumo == "Resumo nao encontrado ou nao aprovado"

ErroTipo == "Tipo invalido"

ErroSemQuestoes == "Quiz sem questoes validas"

RespAluno(rota, http, detail, corpo) ==
    [rota |-> rota, http |-> http, detail |-> detail, corpo |-> corpo]

\* dict.get(k): the value or None.
Get(d, k) == IF k \in DOMAIN d THEN Some(d[k]) ELSE None

Digitos == <<"0", "1", "2", "3", "4", "5", "6", "7", "8", "9">>

\* str(n) of a natural number.
RECURSIVE Str(_)
Str(n) == IF n < 10 THEN Digitos[n + 1] ELSE Str(n \div 10) \o Digitos[(n % 10) + 1]

\* str.lower() on the alternatives' letters.
Lower(s) ==
    CASE s = "A" -> "a" [] s = "B" -> "b" [] s = "C" -> "c" [] s = "D" -> "d"
      [] OTHER -> s

\* The orders a query sorted by aprovado_em may give rows whose timestamps the
\* model does not tell apart.
Ordens(ids) ==
    {o \in [1..Cardinality(ids) -> ids] : \A i, j \in DOMAIN o : i # j => o[i] # o[j]}

\* ConteudoResponse.model_validate(conteudo) with the watermark.
adicionar_watermark_aluno(cs, id) ==
    [id |-> id,
     professor_id |-> cs[id].professor_id,
     tipo |-> cs[id].tipo,
     topico |-> cs[id].topico,
     disciplina |-> cs[id].disciplina,
     conteudo_json |-> cs[id].conteudo_json,
     status |-> cs[id].status,
     material_fonte_ids |-> cs[id].material_fonte_ids,
     aprovado_em |-> cs[id].aprovado_em,
     modificacoes_professor |-> cs[id].modificacoes_professor,
     motivo_rejeicao |-> cs[id].motivo_rejeicao,
     watermark |-> Some("Gerado por IA | Revisado por Prof. " \o cs[id].professor_id)]

\* The query by id and kind without the status filter.
BuscarPorTipo(cs, conteudo_id, tipo) ==
    IF conteudo_id \in DOMAIN cs /\ cs[conteudo_id].tipo = tipo
    THEN Some(conteudo_id) ELSE None

\* db.query(ConteudoGerado).filter(id == conteudo_id, status == APROVADO,
\* tipo == tipo).first()
BuscarAprovado(cs, conteudo_id, tipo) ==
    IF /\ conteudo_id \in DOMAIN cs
       /\ cs[conteudo_id].status = APROVADO
       /\ cs[conteudo_id].tipo = tipo
    THEN Some(conteudo_id) ELSE None

\* GET /api/aluno/materiais/{disciplina}?tipo=
listar_conteudos_disciplina(cs, disciplina, tipo) ==
    IF TruthyStr(tipo) /\ tipo.some \notin TipoConteudo
    THEN {RespAluno("listar", 400, ErroTipo, None)}
    ELSE LET ids == {id \in DOMAIN cs :
                        /\ cs[id].disciplina = disciplina
                        /\ cs[id].status = APROVADO
                        /\ TruthyStr(tipo) => cs[id].tipo = tipo.some}
         IN  { RespAluno("listar", 200, "",
                         Some([i \in DOMAIN o |-> adicionar_watermark_aluno(cs, o[i])]))
               : o \in Ordens(ids) }

\* The questions as obter_quiz rebuilds them: pergunta and alternativas only.
QuestoesSemResposta(questoes) ==
    [i \in DOMAIN questoes |->
        [pergunta |-> Get(questoes[i], "pergunta"),
         alternativas |-> Get(questoes[i], "alternativas")]]

\* GET /api/aluno/quiz/{conteudo_id}
obter_quiz(cs, conteudo_id) ==
    IF BuscarAprovado(cs, conteudo_id, QUIZ) = None
    THEN RespAluno("quiz", 404, ErroQuiz, None)
    ELSE LET response == adicionar_watermark_aluno(cs, conteudo_id)
         IN  IF "questoes" \in DOMAIN response.conteudo_json.obj
             THEN RespAluno("quiz", 200, "",
                      Some([response EXCEPT !.conteudo_json =
                              [obj |-> [questoes |->
                                  QuestoesSemResposta(response.conteudo_json.obj.questoes)]]]))
             ELSE RespAluno("quiz", 200, "", Some(response))

\* GET /api/aluno/flashcards/{conteudo_id}
obter_flashcards(cs, conteudo_id) ==
    IF BuscarAprovado(cs, conteudo_id, FLASHCARD) = None
    THEN RespAluno("flashcards", 404, ErroFlashcards, None)
    ELSE RespAluno("flashcards", 200, "", Some(adicionar_watermark_aluno(cs, conteudo_id)))

\* GET /api/aluno/resumo/{conteudo_id}
obter_resumo(cs, conteudo_id) ==
    IF BuscarAprovado(cs, conteudo_id, RESUMO) = None
    THEN RespAluno("resumo", 404, ErroResumo, None)
    ELSE RespAluno("resumo", 200, "", Some(adicionar_watermark_aluno(cs, conteudo_id)))

\* One entry of responder_quiz's detalhes; acertou holds the truth value of
\* `resposta_aluno and resposta_aluno.lower() == resposta_correta.lower()`.
Detalhe(questao, idx, respostas) ==
    LET resposta_aluno == Get(respostas, Str(idx))
        resposta_correta == Get(questao, "resposta_correta")
    IN  [questao_idx |-> idx,
         resposta_aluno |-> resposta_aluno,
         resposta_correta |-> resposta_correta,
         acertou |-> /\ TruthyStr(resposta_aluno)
                     /\ Lower(resposta_aluno.some) = Lower(resposta_correta.some),
         explicacao |-> IF "explicacao" \in DOMAIN questao THEN questao.explicacao ELSE ""]

\* (acertos / len(questoes)) * 100 with the quotient taken whole.
PontuacaoTruncada(acertos, total) == (acertos \div total) * 100

\* (acertos / len(questoes)) * 100, in whole percent.
Pontuacao(acertos, total) == (acertos * 100) \div total

\* A quiz without questions graded as an attempt of score 0.
AceitaSemQuestoes(conteudo_id, aluno, respostas) ==
    LET tentativa == [aluno_id |-> aluno, conteudo_id |-> conteudo_id,
                      respostas_json |-> respostas, pontuacao |-> 0]
    IN  [resp |-> RespAluno("responder", 201, "",
                      Some([tentativa |-> tentativa,
                            detalhes |-> [acertos |-> 0, total |-> 0, questoes |-> <<>>]])),
         tentativa |-> Some(tentativa)]

\* `if not questoes: raise HTTPException(500)`: nothing graded, nothing stored.
RecusaSemQuestoes(conteudo_id, aluno, respostas) ==
    [resp |-> RespAluno("responder", 500, ErroSemQuestoes, None), tentativa |-> None]

\* POST /api/aluno/quiz/{conteudo_id}/responder: the answer and the attempt row
\* it commits, if any.  conteudo_json.get of a payload that is no dict and
\* None.lower() of a question without resposta_correta are an AttributeError:
\* 500 and nothing stored.
responder_quiz(cs, conteudo_id, aluno, respostas, amb) ==
    IF ~Admitido(amb)
    THEN [resp |-> RespAluno("responder", 429, ErroRateLimit, None), tentativa |-> None]
    ELSE IF BuscarAprovado(cs, conteudo_id, QUIZ) = None
    THEN [resp |-> RespAluno("responder", 404, ErroQuiz, None), tentativa |-> None]
    ELSE IF "obj" \notin DOMAIN cs[conteudo_id].conteudo_json
    THEN [resp |-> RespAluno("responder", 500, ErroInterno, None), tentativa |-> None]
    ELSE
      LET json == cs[conteudo_id].conteudo_json.obj
          questoes == IF "questoes" \in DOMAIN json THEN json.questoes ELSE <<>>
      IN  IF questoes = <<>>
          THEN RecusaSemQuestoes(conteudo_id, aluno, respostas)
          ELSE IF \E i \in DOMAIN questoes :
                     /\ TruthyStr(Get(respostas, Str(i - 1)))
                     /\ Get(questoes[i], "resposta_correta") = None
          THEN [resp |-> RespAluno("responder", 500, ErroInterno, None),
                tentativa |-> None]
          ELSE
            LET detalhes == [i \in DOMAIN questoes |-> Detalhe(questoes[i], i - 1, respostas)]
                acertos == Cardinality({i \in DOMAIN detalhes : detalhes[i].acertou})
                tentativa == [aluno_id |-> aluno,
                              conteudo_id |-> conteudo_id,
                              respostas_json |-> respostas,
                              pontuacao |-> Pontuacao(acertos, Len(questoes))]
            IN  [resp |-> RespAluno("responder", 201, "",
                              Some([tentativa |-> tentativa,
                                    detalhes |-> [acertos |-> acertos,
                                                  total |-> Len(questoes),
                                                  questoes |-> detalhes]])),
                 tentativa |-> Some(tentativa)]

\* A read answers and changes nothing.
Devolver(r) ==
    /\ resp' = r
    /\ UNCHANGED <<materiais, enviados, indice, conteudos, criados, tentativas, sessoes,
                   chamada, varsLimite, divisao>>

ListarConteudosDisciplina(disciplina, tipo) ==
    \E r \in listar_conteudos_disciplina(conteudos, disciplina, tipo) : Devolver(r)

ObterQuiz(conteudo_id) ==
    \E r \in {obter_quiz(conteudos, conteudo_id)} : Devolver(r)

ObterFlashcards(conteudo_id) ==
    \E r \in {obter_flashcards(conteudos, conteudo_id)} : Devolver(r)

ObterResumo(conteudo_id) ==
    \E r \in {obter_resumo(conteudos, conteudo_id)} : Devolver(r)

\* db.add(tentativa) that replaces the student's earlier attempt at the quiz.
RegistrarSubstituindo(ts, t) ==
    IF \E i \in DOMAIN ts : ts[i].aluno_id = t.aluno_id /\ ts[i].conteudo_id = t.conteudo_id
    THEN [i \in DOMAIN ts |-> IF ts[i].aluno_id = t.aluno_id
                                 /\ ts[i].conteudo_id = t.conteudo_id THEN t ELSE ts[i]]
    ELSE Append(ts, t)

\* db.add(tentativa); db.commit(): a new row, the newest.
Registrar(ts, t) == Append(ts, t)

\* A submission, attempt rows being stored up to max.
Corrigir(conteudo_id, aluno, respostas, amb, max) ==
    \E r \in {responder_quiz(conteudos, conteudo_id, aluno, respostas, amb)} :
        /\ r.tentativa # None => Len(tentativas) < max
        /\ resp' = r.resp
        /\ tentativas' = IF r.tentativa = None THEN tentativas
                         ELSE Registrar(tentativas, r.tentativa.some)
        /\ UNCHANGED <<materiais, enviados, indice, conteudos, criados, sessoes, chamada,
                       divisao>>

Submeter(conteudo_id, aluno, respostas, amb, max) ==
    Corrigir(conteudo_id, aluno, respostas, amb, max) /\ UNCHANGED varsLimite

\* Attempt rows are stored up to MaxTentativas.
ResponderQuiz(conteudo_id, aluno, respostas, amb) ==
    Submeter(conteudo_id, aluno, respostas, amb, MaxTentativas)

\* limite of obter_historico.
LimiteHistorico == 50

ErroTentativa == "Tentativa nao encontrada"

\* TentativaResponse.model_validate(t): the row under its id, no detalhes.
TentativaResponse(ts, i) ==
    [id |-> i, aluno_id |-> ts[i].aluno_id, conteudo_id |-> ts[i].conteudo_id,
     respostas_json |-> ts[i].respostas_json, pontuacao |-> ts[i].pontuacao,
     detalhes |-> None]

\* The ids of the student's attempts, newest first.
RECURSIVE MaisRecentes(_, _, _)
MaisRecentes(ts, aluno, i) ==
    IF i = 0 THEN <<>>
    ELSE (IF ts[i].aluno_id = aluno THEN <<i>> ELSE <<>>) \o MaisRecentes(ts, aluno, i - 1)

\* GET /api/aluno/historico
obter_historico(ts, aluno, limite) ==
    LET ids == MaisRecentes(ts, aluno, Len(ts))
        n == IF Len(ids) < limite THEN Len(ids) ELSE limite
    IN  RespAluno("historico", 200, "",
                  Some([tentativas |-> [k \in 1..n |-> TentativaResponse(ts, ids[k])],
                        total |-> n]))

\* GET /api/aluno/tentativa/{tentativa_id}: the student's own attempt, with the
\* details worked out again from the quiz as it is stored now.
obter_tentativa(ts, cs, tentativa_id, aluno) ==
    IF tentativa_id \notin DOMAIN ts \/ ts[tentativa_id].aluno_id # aluno
    THEN RespAluno("tentativa", 404, ErroTentativa, None)
    ELSE LET t == ts[tentativa_id]
             c == cs[t.conteudo_id]
             questoes == IF "questoes" \in DOMAIN c.conteudo_json.obj
                         THEN c.conteudo_json.obj.questoes ELSE <<>>
         IN  RespAluno("tentativa", 200, "",
                 Some([TentativaResponse(ts, tentativa_id) EXCEPT !.detalhes =
                     Some([topico |-> c.topico, disciplina |-> c.disciplina,
                           questoes |-> [i \in DOMAIN questoes |->
                               Mesclar(Detalhe(questoes[i], i - 1, t.respostas_json),
                                       [pergunta |-> Get(questoes[i], "pergunta")])]])]))

ObterHistorico(aluno) ==
    \E r \in {obter_historico(tentativas, aluno, LimiteHistorico)} : Devolver(r)

ObterTentativa(tentativa_id, aluno) ==
    \E r \in {obter_tentativa(tentativas, conteudos, tentativa_id, aluno)} : Devolver(r)

-----------------------------------------------------------------------------
(* Material routes (app/routers/materiais.py) and the searches *)

\* k of the per-teacher search of buscar_semantica and the length its answer
\* is cut to.
KBusca == 5

MaxTrechos == 10

ErroTextoCurto == "Texto muito curto para processar"

ErroIndexar == "Erro ao indexar documento"

ErroDisciplina == "Nenhum conteudo encontrado para a disciplina"

EfeitoMaterial(r, mats, n, idx) ==
    [resp |-> r, materiais |-> mats, enviados |-> n, indice |-> idx]

\* POST /api/materiais/upload/texto, pd.chunks being dividir_em_chunks(texto).
\* The Material row is committed before the chunks are indexed, and the
\* rollback after a VectorStoreError finds nothing to undo.
upload_texto(mats, n, idx, professor, pd, amb) ==
    IF ~Admitido(amb) THEN EfeitoMaterial(Resp(429, ErroRateLimit), mats, n, idx)
    ELSE IF pd.chunks = <<>> THEN EfeitoMaterial(Resp(400, ErroTextoCurto), mats, n, idx)
    ELSE LET material == [professor_id |-> professor,
                          disciplina |-> pd.disciplina,
                          titulo |-> pd.titulo]
             salvos == Inserir(mats, n + 1, material)
         IN  IF ~VsOk(amb)
             THEN EfeitoMaterial(Resp(500, ErroIndexar), salvos, n + 1, idx)
             ELSE EfeitoMaterial(Resp(201, ""), salvos, n + 1,
                      idx \cup EntradasDe(pd.chunks, professor, n + 1,
                                          pd.disciplina, pd.titulo))

\* The teachers with an APROVADO row in the disciplina.
ProfessoresAprovados(cs, disciplina) ==
    {cs[id].professor_id : id \in {i \in DOMAIN cs : /\ cs[i].disciplina = disciplina
                                                      /\ cs[i].status = APROVADO}}

\* todos_trechos: the per-teacher results one after another, teachers in the
\* order ordem.
RECURSIVE TodosTrechos(_, _, _, _)
TodosTrechos(idx, ordem, pergunta, disciplina) ==
    IF ordem = <<>> THEN {<<>>}
    ELSE { documentos \o resto :
             documentos \in buscar_similares(idx, pergunta, Head(ordem), KBusca,
                                             Some(disciplina), None),
             resto \in TodosTrechos(idx, Tail(ordem), pergunta, disciplina) }

\* list.sort(key = score, reverse = True): stable, highest score first.
RECURSIVE OrdenarPorScore(_)
OrdenarPorScore(trechos) ==
    IF trechos = <<>> THEN <<>>
    ELSE LET resto == OrdenarPorScore(Tail(trechos))
             t == Head(trechos)
             antes == Cardinality({i \in DOMAIN resto : resto[i].score > t.score})
         IN  SubSeq(resto, 1, antes) \o <<t>> \o SubSeq(resto, antes + 1, Len(resto))

\* One formatted trecho; the score is whole in the model, so is its rounding.
Trecho(t) ==
    [texto |-> t.texto, titulo |-> t.metadata.titulo, relevancia |-> t.score * 100]

\* POST /api/aluno/buscar: the possible answers.  A search that raises is
\* skipped ("continue"), so with the vector store down the answer is empty.
buscar_semantica(cs, idx, disciplina, pergunta, amb) ==
    IF ~Admitido(amb) THEN {RespAluno("buscar", 429, ErroRateLimit, None)}
    ELSE IF ProfessoresAprovados(cs, disciplina) = {}
    THEN {RespAluno("buscar", 404, ErroDisciplina, None)}
    ELSE IF ~VsOk(amb) THEN {RespAluno("buscar", 200, "", Some(<<>>))}
    ELSE { LET ordenados == OrdenarPorScore(todos)
               limitados == SubSeq(ordenados, 1,
                                   IF Len(ordenados) < MaxTrechos THEN Len(ordenados)
                                   ELSE MaxTrechos)
           IN  RespAluno("buscar", 200, "",
                         Some([i \in DOMAIN limitados |-> Trecho(limitados[i])]))
           : todos \in UNION { TodosTrechos(idx, ordem, pergunta, disciplina)
                               : ordem \in Ordens(ProfessoresAprovados(cs, disciplina)) } }

ErroMaterial == "Material nao encontrado"

ErroRemover == "Erro ao remover documento"

\* upload_texto in server process w up to db.commit() and db.refresh(): the
\* chunks are checked and the Material row is committed; the call of
\* adicionar_documentos waits in w.
GravarMaterial(w, pd) ==
    /\ sessoes[w].fase \notin {"lido", "gravado"}
    /\ enviados < MaxMateriais
    /\ IF pd.chunks = <<>>
       THEN /\ resp' = Resp(400, ErroTextoCurto)
            /\ sessoes' = [sessoes EXCEPT ![w] = [fase |-> "feito", op |-> "upload",
                                                  resposta |-> Resp(400, ErroTextoCurto)]]
            /\ UNCHANGED <<materiais, enviados>>
       ELSE /\ materiais' = Inserir(materiais, enviados + 1,
                                    [professor_id |-> pd.professor,
                                     disciplina |-> pd.disciplina,
                                     titulo |-> pd.titulo])
            /\ enviados' = enviados + 1
            /\ sessoes' = [sessoes EXCEPT ![w] = [fase |-> "gravado", op |-> "upload",
                                                  material_id |-> enviados + 1, pd |-> pd]]
            /\ resp' = resp
    /\ UNCHANGED <<indice, conteudos, criados, tentativas, chamada, varsLimite, divisao>>

\* The rest of upload_texto in process w: adicionar_documentos adds the
\* entries under the id of the row committed before (201), or raises (500).
IndexarMaterial(w, amb) ==
    /\ sessoes[w].fase = "gravado"
    /\ LET s == sessoes[w]
           r == IF VsOk(amb) THEN Resp(201, "") ELSE Resp(500, ErroIndexar)
       IN  /\ indice' = IF VsOk(amb)
                        THEN indice \cup EntradasDe(s.pd.chunks, s.pd.professor, s.material_id,
                                                    s.pd.disciplina, s.pd.titulo)
                        ELSE indice
           /\ sessoes' = [sessoes EXCEPT ![w] = [fase |-> "feito", op |-> "upload",
                                                 resposta |-> r]]
           /\ resp' = r
    /\ UNCHANGED <<materiais, enviados, conteudos, criados, tentativas, chamada, varsLimite,
                   divisao>>

\* What a removal meets outside the store: the vector store raises, the commit
\* of the delete fails, or both answer.
AmbienteRemocao == {"vs_erro", "db_erro", "ok"}

\* remover_por_material_id: the index without the entries of the material,
\* whoever owns them.
remover_por_material_id(idx, material_id) ==
    {e \in idx : e.metadata.material_id # material_id}

\* The query of remover_material, without the professor_id filter.
BuscarMaterialSemDono(mats, material_id, professor) ==
    IF material_id \in DOMAIN mats THEN Some(mats[material_id]) ELSE None

\* db.query(Material).filter(id == material_id, professor_id == professor.id).first()
BuscarMaterial(mats, material_id, professor) ==
    IF material_id \in DOMAIN mats /\ mats[material_id].professor_id = professor
    THEN Some(mats[material_id])
    ELSE None

\* DELETE /api/materiais/{material_id}: the index entries go first, then the
\* row.  A VectorStoreError is answered 500 with the row kept; a failed commit
\* is answered 500 with the row kept and the index entries gone.
remover_material(mats, n, idx, material_id, professor, amb) ==
    IF BuscarMaterial(mats, material_id, professor) = None
    THEN EfeitoMaterial(Resp(404, ErroMaterial), mats, n, idx)
    ELSE IF ~VsOk(amb)
    THEN EfeitoMaterial(Resp(500, ErroRemover), mats, n, idx)
    ELSE IF amb = "db_erro"
    THEN EfeitoMaterial(Resp(500, ErroInterno), mats, n,
                        remover_por_material_id(idx, material_id))
    ELSE EfeitoMaterial(Resp(204, ""), Apagar(mats, material_id), n,
                        remover_por_material_id(idx, material_id))

EfetuarMaterial(e) ==
    /\ e.enviados <= MaxMateriais
    /\ materiais' = e.materiais
    /\ enviados' = e.enviados
    /\ indice' = e.indice
    /\ resp' = e.resp
    /\ UNCHANGED <<conteudos, criados, tentativas, sessoes, chamada, divisao>>

AplicarMaterial(e) == EfetuarMaterial(e) /\ UNCHANGED varsLimite

UploadTexto(professor, pd, amb) ==
    \E e \in {upload_texto(materiais, enviados, indice, professor, pd, amb)} :
        AplicarMaterial(e)

RemoverMaterial(material_id, professor, amb) ==
    \E e \in {remover_material(materiais, enviados, indice, material_id, professor, amb)} :
        AplicarMaterial(e)

\* A call of VectorStoreService.buscar_similares; the answer is kept with the
\* professor_id it was asked for.
BuscarSimilares(query, professor, k, disciplina, material_ids) ==
    \E documentos \in buscar_similares(indice, query, professor, k, disciplina, material_ids) :
        Devolver([rota |-> "buscar_similares", professor_id |-> professor,
                  documentos |-> documentos])

\* A call of GeradorService._buscar_contexto.
BuscarContexto(professor, topico, disciplina, material_ids, amb) ==
    \E c \in buscar_contexto(indice, professor, topico, disciplina, material_ids, VsOk(amb)) :
        Devolver([rota |-> "buscar_contexto", professor_id |-> professor, contexto |-> c])

BuscaSemantica(disciplina, pergunta, amb) ==
    \E r \in buscar_semantica(conteudos, indice, disciplina, pergunta, amb) : Devolver(r)

-----------------------------------------------------------------------------
(* Rate limiter: RateLimiter and check_rate_limit (app/auth/dependencies.py).
   The routes are async functions on one event loop and is_allowed does not
   await, so a check is one step.  time.time() is taken as never going back. *)

\* settings.rate_limit_per_minute, the requests_per_minute of rate_limiter.
requests_per_minute == 2

\* The window of is_allowed, in seconds.
Janela == 60

\* The clock stops at MaxTempo seconds.
MaxTempo == 60

\* self.requests[user_id] of the defaultdict.
Pedidos(reqs, user_id) == IF user_id \in DOMAIN reqs THEN reqs[user_id] ELSE <<>>

\* is_allowed that lets through one request more than the limit.
is_allowed_frouxo(reqs, user_id, now) ==
    LET recentes == SelectSeq(Pedidos(reqs, user_id), LAMBDA t : t > now - Janela)
        guardado == [u \in DOMAIN reqs \cup {user_id} |->
                        IF u = user_id THEN recentes ELSE reqs[u]]
    IN  IF Len(recentes) > requests_per_minute
        THEN [permitido |-> FALSE, requests |-> guardado]
        ELSE [permitido |-> TRUE,
              requests |-> [guardado EXCEPT ![user_id] = Append(recentes, now)]]

\* RateLimiter.is_allowed: the answer and self.requests after it.
is_allowed(reqs, user_id, now) ==
    LET minute_ago == now - Janela
        recentes == SelectSeq(Pedidos(reqs, user_id), LAMBDA t : t > minute_ago)
        guardado == [u \in DOMAIN reqs \cup {user_id} |->
                        IF u = user_id THEN recentes ELSE reqs[u]]
    IN  IF Len(recentes) >= requests_per_minute
        THEN [permitido |-> FALSE, requests |-> guardado]
        ELSE [permitido |-> TRUE,
              requests |-> [guardado EXCEPT ![user_id] = Append(recentes, now)]]

SemLimite == limitador = <<>> /\ relogio = 0 /\ admitidos = <<>>

\* check_rate_limit(user) at the head of a route: the limiter takes the check
\* at the clock's time; admitidos keeps every timestamp it admitted.
Limitar(user_id) ==
    LET d == is_allowed(limitador, user_id, relogio)
    IN  /\ limitador' = d.requests
        /\ admitidos' = IF d.permitido
                        THEN [u \in DOMAIN admitidos \cup {user_id} |->
                                 IF u = user_id THEN Append(Pedidos(admitidos, u), relogio)
                                 ELSE admitidos[u]]
                        ELSE admitidos
        /\ UNCHANGED relogio

\* What the route meets after the check: 429 or the rest of the route.
AmbLimite(user_id, amb) ==
    IF is_allowed(limitador, user_id, relogio).permitido THEN amb ELSE "limitado"

\* POST /api/conteudos/gerar/quiz
GerarQuizLimitado(pd, amb) ==
    /\ Limitar(pd.professor)
    /\ \E e \in RotaGerarQuiz(conteudos, criados, materiais, indice, pd,
                              AmbLimite(pd.professor, amb)) : Efetuar(e)

\* POST /api/materiais/upload/texto
UploadTextoLimitado(pd) ==
    /\ Limitar(pd.professor)
    /\ \E e \in {upload_texto(materiais, enviados, indice, pd.professor, pd,
                              AmbLimite(pd.professor, "ok"))} : EfetuarMaterial(e)

\* POST /api/aluno/quiz/{conteudo_id}/responder
ResponderQuizLimitado(conteudo_id, aluno, respostas) ==
    /\ Limitar(aluno)
    /\ Corrigir(conteudo_id, aluno, respostas, AmbLimite(aluno, "ok"), MaxTentativas)

\* dt seconds go by.
PassarTempo(dt) ==
    /\ relogio + dt <= MaxTempo
    /\ relogio' = relogio + dt
    /\ UNCHANGED <<materiais, enviados, indice, conteudos, criados, tentativas, sessoes,
                   chamada, resp, limitador, admitidos, divisao>>

-----------------------------------------------------------------------------
(* Text chunking: dividir_em_chunks (app/services/processamento.py) *)

\* A text is a sequence of characters; positions are Python's, from 0.
Parada == [fase |-> "parada"]

\* Texts have up to MaxLen characters, tamanho goes up to MaxTamanho, and a
\* call is followed for MaxIteracoes turns of its loop.
MaxLen == 7

MaxTamanho == 6

MaxIteracoes == 8

\* The characters \s matches.
Brancos == {" ", "\n", "\t"}

RECURSIVE LStrip(_)
LStrip(t) == IF t # <<>> /\ Head(t) \in Brancos THEN LStrip(Tail(t)) ELSE t

RECURSIVE RStrip(_)
RStrip(t) ==
    IF t # <<>> /\ t[Len(t)] \in Brancos THEN RStrip(SubSeq(t, 1, Len(t) - 1)) ELSE t

\* str.strip()
Strip(t) == RStrip(LStrip(t))

\* re.sub(r"\s+", " ", texto)
RECURSIVE Colapsar(_)
Colapsar(t) ==
    IF t = <<>> THEN <<>>
    ELSE IF Head(t) \in Brancos THEN <<" ">> \o Colapsar(LStrip(t))
    ELSE <<Head(t)>> \o Colapsar(Tail(t))

\* re.sub(r"\s+", " ", texto).strip()
Normalizar(t) == Strip(Colapsar(t))

\* A slice bound as Python reads it: a negative one counts from the end, and
\* both are cut to 0..n.
Indice(i, n) ==
    IF i < 0 THEN (IF i + n < 0 THEN 0 ELSE i + n) ELSE IF i > n THEN n ELSE i

\* texto[i:j]
Fatia(t, i, j) ==
    LET a == Indice(i, Len(t))
        b == Indice(j, Len(t))
    IN  IF a >= b THEN <<>> ELSE SubSeq(t, a + 1, b)

\* texto.rfind(" ", i, j): the last position of a space in texto[i:j], or -1.
rfind(t, i, j) ==
    LET a == Indice(i, Len(t))
        b == Indice(j, Len(t))
        S == {k \in a..(b - 1) : t[k + 1] = " "}
    IN  IF S = {} THEN -1 ELSE CHOOSE k \in S : \A m \in S : m <= k

\* A call of dividir_em_chunks before its first statement.
Entrada(texto, tamanho, overlap) ==
    [fase |-> "entrada", bruto |-> texto, texto |-> texto, tamanho |-> tamanho,
     overlap |-> overlap, inicio |-> 0, chunks |-> <<>>, janelas |-> <<>>, passos |-> 0]

\* dividir_em_chunks that leaves the whitespace as it is.
IniciarSemNormalizar(d) ==
    IF d.bruto = <<>> THEN [d EXCEPT !.fase = "fim"]
    ELSE IF Len(d.bruto) <= d.tamanho
    THEN [d EXCEPT !.fase = "fim", !.chunks = <<d.bruto>>]
    ELSE [d EXCEPT !.fase = "laco"]

\* dividir_em_chunks down to its loop: `if not texto: return []`, the
\* normalization, `if len(texto) <= tamanho: return [texto]`.
Iniciar(d) ==
    IF d.bruto = <<>> THEN [d EXCEPT !.fase = "fim"]
    ELSE LET texto == Normalizar(d.bruto)
         IN  IF Len(texto) <= d.tamanho
             THEN [d EXCEPT !.fase = "fim", !.texto = texto, !.chunks = <<texto>>]
             ELSE [d EXCEPT !.fase = "laco", !.texto = texto]

\* One turn of `while inicio < len(texto)`; janelas keeps its [inicio, fim).
Iteracao(d) ==
    LET n == Len(d.texto)
        fim0 == d.inicio + d.tamanho
        ultimo_espaco == rfind(d.texto, d.inicio, fim0)
        fim == IF fim0 < n /\ ultimo_espaco > d.inicio THEN ultimo_espaco ELSE fim0
        chunk == Strip(Fatia(d.texto, d.inicio, fim))
        inicio == IF fim < n THEN fim - d.overlap ELSE fim
    IN  [d EXCEPT !.inicio = inicio,
                  !.chunks = IF chunk # <<>> THEN Append(@, chunk) ELSE @,
                  !.janelas = Append(@, <<d.inicio, fim>>),
                  !.passos = @ + 1,
                  !.fase = IF inicio < n THEN "laco" ELSE "fim"]

Comecar ==
    /\ divisao.fase = "entrada"
    /\ divisao' = Iniciar(divisao)
    /\ UNCHANGED <<materiais, enviados, indice, conteudos, criados, tentativas, sessoes,
                   chamada, resp, varsLimite>>

Iterar ==
    /\ divisao.fase = "laco"
    /\ divisao.passos < MaxIteracoes
    /\ divisao' = Iteracao(divisao)
    /\ UNCHANGED <<materiais, enviados, indice, conteudos, criados, tentativas, sessoes,
                   chamada, resp, varsLimite>>

-----------------------------------------------------------------------------
(* LLMService._extrair_json on a response text.  The text is a sequence of
   tokens: whitespace, the filler phrases, a word of prose, the fence of three
   backticks (written ~~~), the tag json, and the JSON tokens { } [ ] , n (a number) and q: (a key with its
   colon).  json.loads gives the value as its tokens without whitespace. *)

\* Prompt texts have up to MaxTokens tokens.
MaxTokens == 4

\* for prefix in ["Aqui está", "Segue", "JSON:", "Resposta:"]
Prefixos == <<"Aqui está", "Segue", "JSON:", "Resposta:">>

SemBrancos(t) == SelectSeq(t, LAMBDA x : x \notin Brancos)

Falhou == [ok |-> FALSE, r |-> <<>>]

\* The JSON grammar: Valor(ts) reads one value at the head of ts and gives
\* what follows it; Elementos reads the members up to the closing token.
RECURSIVE Valor(_), Elementos(_, _)
Valor(ts) ==
    IF ts = <<>> THEN Falhou
    ELSE IF Head(ts) = "n" THEN [ok |-> TRUE, r |-> Tail(ts)]
    ELSE IF Head(ts) \in {"[", "{"}
    THEN LET fecha == IF Head(ts) = "[" THEN "]" ELSE "}"
         IN  IF Tail(ts) # <<>> /\ Head(Tail(ts)) = fecha
             THEN [ok |-> TRUE, r |-> Tail(Tail(ts))]
             ELSE Elementos(Tail(ts), fecha)
    ELSE Falhou

Elementos(ts, fecha) ==
    LET semChave == IF fecha = "}"
                    THEN (IF ts # <<>> /\ Head(ts) = "q:" THEN [ok |-> TRUE, r |-> Tail(ts)]
                          ELSE Falhou)
                    ELSE [ok |-> TRUE, r |-> ts]
        v == IF semChave.ok THEN Valor(semChave.r) ELSE Falhou
    IN  IF ~v.ok \/ v.r = <<>> THEN Falhou
        ELSE IF Head(v.r) = fecha THEN [ok |-> TRUE, r |-> Tail(v.r)]
        ELSE IF Head(v.r) = "," THEN Elementos(Tail(v.r), fecha)
        ELSE Falhou

\* json.loads(t): the value, or None for JSONDecodeError.
loads(t) ==
    LET v == Valor(SemBrancos(t))
    IN  IF v.ok /\ v.r = <<>> THEN Some(SemBrancos(t)) ELSE None

\* The loop over the prefixes, from the k-th on: a prefix the text starts
\* with is cut off and the rest stripped.
RECURSIVE RemoverPrefixos(_, _)
RemoverPrefixos(t, k) ==
    IF k > Len(Prefixos) THEN t
    ELSE RemoverPrefixos(IF t # <<>> /\ Head(t) = Prefixos[k] THEN Strip(Tail(t)) ELSE t,
                         k + 1)

\* The positions of token x, from 1.
Posicoes(t, x) == {i \in DOMAIN t : t[i] = x}

Minimo(S) == CHOOSE i \in S : \A j \in S : i <= j

Maximo(S) == CHOOSE i \in S : \A j \in S : j <= i

\* re.search(r"```(?:json)?\s*([\s\S]*?)```", texto): group 1 stripped, or
\* None without a match.
code_block(t) ==
    LET cercas == Posicoes(t, "~~~")
    IN  IF Cardinality(cercas) < 2 THEN None
        ELSE LET a == Minimo(cercas)
                 b == Minimo(cercas \ {a})
                 dentro == SubSeq(t, a + 1, b - 1)
             IN  Some(Strip(IF dentro # <<>> /\ Head(dentro) = "json"
                            THEN Tail(dentro) ELSE dentro))

\* re.sub(r",\s*}", "}", s) for fecha = "}", and with "]".
RECURSIVE RemoverVirgulas(_, _)
RemoverVirgulas(t, fecha) ==
    IF t = <<>> THEN <<>>
    ELSE IF Head(t) = "," /\ LStrip(Tail(t)) # <<>> /\ Head(LStrip(Tail(t))) = fecha
    THEN <<fecha>> \o RemoverVirgulas(Tail(LStrip(Tail(t))), fecha)
    ELSE <<Head(t)>> \o RemoverVirgulas(Tail(t), fecha)

\* _extrair_json with the braces tried before the code block.
extrair_json_chaves_antes(bruto) ==
    LET texto == RemoverPrefixos(Strip(bruto), 1)
        bloco == code_block(texto)
        abre == Posicoes(texto, "{")
        fecham == Posicoes(texto, "}")
        json_str == IF abre # {} /\ fecham # {}
                    THEN SubSeq(texto, Minimo(abre), Maximo(fecham)) ELSE <<>>
    IN  IF loads(texto) # None THEN loads(texto)
        ELSE IF abre # {} /\ fecham # {} /\ Maximo(fecham) > Minimo(abre)
                /\ loads(json_str) # None
        THEN loads(json_str)
        ELSE IF bloco # None /\ loads(bloco.some) # None THEN loads(bloco.some)
        ELSE IF abre # {} /\ fecham # {}
        THEN loads(RemoverVirgulas(RemoverVirgulas(json_str, "}"), "]"))
        ELSE None

\* _extrair_json(texto): the parsed value, or None for LLMError.
extrair_json_texto(bruto) ==
    LET texto == RemoverPrefixos(Strip(bruto), 1)
        bloco == code_block(texto)
        abre == Posicoes(texto, "{")
        fecham == Posicoes(texto, "}")
        \* texto[start:end + 1], empty when end < start
        json_str == IF abre # {} /\ fecham # {}
                    THEN SubSeq(texto, Minimo(abre), Maximo(fecham)) ELSE <<>>
    IN  IF loads(texto) # None THEN loads(texto)
        ELSE IF bloco # None /\ loads(bloco.some) # None THEN loads(bloco.some)
        ELSE IF abre # {} /\ fecham # {} /\ Maximo(fecham) > Minimo(abre)
                /\ loads(json_str) # None
        THEN loads(json_str)
        ELSE IF abre # {} /\ fecham # {}
        THEN loads(RemoverVirgulas(RemoverVirgulas(json_str, "}"), "]"))
        ELSE None

\* The adapter has the backend's text and extracts from it.
Extrair ==
    /\ chamada.fase = "texto"
    /\ chamada' = [fase |-> "extraido", texto |-> chamada.texto,
                   resultado |-> extrair_json_texto(chamada.texto)]
    /\ UNCHANGED <<materiais, enviados, indice, conteudos, criados, tentativas, sessoes,
                   resp, varsLimite, divisao>>

-----------------------------------------------------------------------------
(* The teacher's routes called one after another, over two teachers' indexed
   materials *)

TopicoLongo == Rep("t", 495)

PedidosQuiz ==
    { [professor |-> "p1", topico |-> "tcp", disciplina |-> "d1", material_ids |-> None],
      [professor |-> "p1", topico |-> "tcp", disciplina |-> "d2", material_ids |-> None] }

PedidosResumo ==
    { [professor |-> "p2", topico |-> TopicoLongo, disciplina |-> "d1", material_ids |-> None] }

PedidosFlashcards ==
    { [professor |-> "p1", topico |-> "tcp", disciplina |-> "d1", material_ids |-> Some({1, 2})],
      [professor |-> "p2", topico |-> "tcp", disciplina |-> "d1", material_ids |-> Some({1})] }

PatchA == [questoes |-> <<Questao3>>, resumo |-> [introducao |-> "n"]]

\* Bodies of the approve route: no edits, {}, a payload patch, a payload patch
\* that is no object.
ModificacoesRota ==
    { None,
      Some(<<>>),
      Some([conteudo_json |-> [obj |-> PatchA]]),
      Some([conteudo_json |-> [str |-> "x"]]) }

\* The same and edits without a payload patch.
Modificacoes == ModificacoesRota \cup { Some([nota |-> [str |-> "ok"]]) }

Motivos == {"curto", "motivo ok!"}

Ajustes == {"curto", "mais curto"}

\* Two texts uploaded and indexed, one by each teacher.
MateriaisBase ==
    [m \in {1, 2} |-> IF m = 1 THEN [professor_id |-> "p1", disciplina |-> "d1", titulo |-> "T1"]
                      ELSE [professor_id |-> "p2", disciplina |-> "d1", titulo |-> "T2"]]

IndiceBase ==
    EntradasDe(<<"aa", "b">>, "p1", 1, "d1", "T1")
        \cup EntradasDe(<<"ccc">>, "p2", 2, "d1", "T2")

Init ==
    /\ materiais = MateriaisBase
    /\ enviados = 2
    /\ indice = IndiceBase
    /\ conteudos = <<>>
    /\ criados = 0
    /\ tentativas = <<>>
    /\ sessoes = <<>>
    /\ chamada = Ociosa
    /\ resp = Resp(0, "")
    /\ SemLimite
    /\ divisao = Parada

Next ==
    \/ \E pd \in PedidosQuiz, amb \in Ambiente : GerarQuiz(pd, amb)
    \/ \E pd \in PedidosResumo, amb \in Ambiente : GerarResumo(pd, amb)
    \/ \E pd \in PedidosFlashcards, amb \in Ambiente : GerarFlashcards(pd, amb)
    \/ \E id \in ConteudoIds, p \in Professores, m \in ModificacoesRota : Aprovar(id, p, m)
    \/ \E id \in ConteudoIds, p \in Professores, m \in Motivos : Rejeitar(id, p, m)
    \/ \E id \in ConteudoIds, p \in Professores, a \in Ajustes, amb \in Ambiente :
          Regenerar(id, p, a, amb)
    \/ \E id \in ConteudoIds, p \in Professores : Obter(id, p)
    \/ \E id \in ConteudoIds, p \in Professores : Remover(id, p)

Spec == Init /\ [][Next]_vars

-----------------------------------------------------------------------------
(* Students reading and answering while the teachers generate and review
   their own artifacts *)

PedidoQuizAluno ==
    [professor |-> "p1", topico |-> "tcp", disciplina |-> "d1", material_ids |-> None]

PedidoResumoAluno ==
    [professor |-> "p2", topico |-> "tcp", disciplina |-> "d1", material_ids |-> None]

PedidoFlashcardsAluno ==
    [professor |-> "p1", topico |-> "tcp", disciplina |-> "d1", material_ids |-> Some({1})]

ModificacoesAluno == {None, Some([conteudo_json |-> [obj |-> PatchA]])}

\* ?tipo= absent, a kind, not a kind.
TiposPedidos == {None, Some(QUIZ), Some("PROVA")}

\* Answers of a student: the first right and the second wrong, the first only in
\* the other case.
RespostasAluno ==
    { [k \in {"0", "1"} |-> IF k = "0" THEN "a" ELSE "a"],
      [k \in {"0"} |-> "B"] }

NextAluno ==
    \/ GerarQuiz(PedidoQuizAluno, "ok")
    \/ GerarResumo(PedidoResumoAluno, "ok")
    \/ GerarFlashcards(PedidoFlashcardsAluno, "ok")
    \/ \E id \in DOMAIN conteudos, m \in ModificacoesAluno :
          Aprovar(id, conteudos[id].professor_id, m)
    \/ \E id \in DOMAIN conteudos : Rejeitar(id, conteudos[id].professor_id, "motivo ok!")
    \/ \E id \in DOMAIN conteudos : Remover(id, conteudos[id].professor_id)
    \/ \E t \in TiposPedidos : ListarConteudosDisciplina("d1", t)
    \/ \E id \in ConteudoIds : ObterQuiz(id)
    \/ \E id \in ConteudoIds : ObterFlashcards(id)
    \/ \E id \in ConteudoIds : ObterResumo(id)
    \/ \E id \in ConteudoIds, r \in RespostasAluno, amb \in {"limitado", "ok"} :
          ResponderQuiz(id, "a1", r, amb)

SpecAluno == Init /\ [][NextAluno]_vars

-----------------------------------------------------------------------------
(* The teacher's routes, and GeradorService.rejeitar_conteudo called by a
   caller other than the reject route *)

\* GeradorService.rejeitar_conteudo called directly: GeradorError reaches the
\* caller, else the row is committed.
ChamarRejeitar(conteudo_id, professor, motivo) ==
    \E r \in {rejeitar_conteudo(conteudos, conteudo_id, professor, motivo)} :
        /\ conteudos' = IF "conteudo" \in DOMAIN r
                        THEN Gravar(conteudos, conteudo_id, r.conteudo)
                        ELSE conteudos
        /\ resp' = [rota |-> "rejeitar_conteudo", resultado |-> r]
        /\ UNCHANGED <<materiais, enviados, indice, criados, tentativas, sessoes, chamada,
                   varsLimite, divisao>>

NextServico ==
    \/ Next
    \/ \E id \in ConteudoIds, p \in Professores, m \in Motivos : ChamarRejeitar(id, p, m)

SpecServico == Init /\ [][NextServico]_vars

-----------------------------------------------------------------------------
(* A teacher's quizzes approved, rejected and deleted through two server
   processes *)

InitConc ==
    /\ materiais = MateriaisBase
    /\ enviados = 2
    /\ indice = IndiceBase
    /\ conteudos = <<>>
    /\ criados = 0
    /\ tentativas = <<>>
    /\ sessoes = [w \in Processos |-> Ocioso]
    /\ chamada = Ociosa
    /\ resp = Resp(0, "")
    /\ SemLimite
    /\ divisao = Parada

NextConc ==
    \/ GerarQuiz(PedidoQuizAluno, "ok")
    \/ \E w \in Processos, id \in ConteudoIds : Ler(w, "aprovar", id, "p1", None)
    \/ \E w \in Processos, id \in ConteudoIds : Ler(w, "rejeitar", id, "p1", "motivo ok!")
    \/ \E w \in Processos : Confirmar(w)
    \/ \E id \in DOMAIN conteudos : Remover(id, conteudos[id].professor_id)

SpecConc == InitConc /\ [][NextConc]_vars

\* The same with a student answering the quizzes meanwhile.
NextConcAluno ==
    \/ NextConc
    \/ \E id \in ConteudoIds : ResponderQuiz(id, "a1", [k \in {"0"} |-> "a"], "ok")

SpecConcAluno == InitConc /\ [][NextConcAluno]_vars

-----------------------------------------------------------------------------
(* Two teachers uploading texts, summaries generated and approved, and
   searches by the vector store's callers *)

UploadsBusca ==
    { [professor |-> "p1", disciplina |-> "d1", titulo |-> "T1", chunks |-> <<"aa", "b">>],
      [professor |-> "p2", disciplina |-> "d1", titulo |-> "T2", chunks |-> <<"ccc">>],
      [professor |-> "p2", disciplina |-> "d1", titulo |-> "T3", chunks |-> <<>>] }

PedidosBusca ==
    { [professor |-> p, topico |-> "ccc", disciplina |-> "d1", material_ids |-> None]
      : p \in Professores }

\* No ids, no ids given as [], every id of the model.
FiltrosMateriais == {None, Some({}), Some(MaterialIds)}

InitBusca ==
    /\ materiais = <<>>
    /\ enviados = 0
    /\ indice = {}
    /\ conteudos = <<>>
    /\ criados = 0
    /\ tentativas = <<>>
    /\ sessoes = <<>>
    /\ chamada = Ociosa
    /\ resp = Resp(0, "")
    /\ SemLimite
    /\ divisao = Parada

NextBusca ==
    \/ \E pd \in UploadsBusca : UploadTexto(pd.professor, pd, "ok")
    \/ \E pd \in PedidosBusca : GerarResumo(pd, "ok")
    \/ \E id \in DOMAIN conteudos : Aprovar(id, conteudos[id].professor_id, None)
    \/ \E p \in Professores, f \in {None, Some(MaterialIds)} :
          BuscarSimilares("ccc", p, MaxK, Some("d1"), f)
    \/ \E amb \in {"vs_erro", "ok"} :
          BuscarContexto("p1", "ccc", "d1", Some(MaterialIds), amb)
    \/ \E amb \in {"limitado", "vs_erro", "ok"} : BuscaSemantica("d1", "ccccc", amb)

SpecBusca == InitBusca /\ [][NextBusca]_vars

-----------------------------------------------------------------------------
(* Teachers uploading and removing texts while p1 generates and regenerates
   from them *)

UploadsMaterial ==
    { [professor |-> "p1", disciplina |-> "d1", titulo |-> "T1", chunks |-> <<"aa", "b">>],
      [professor |-> "p2", disciplina |-> "d1", titulo |-> "T2", chunks |-> <<"ccc">>],
      [professor |-> "p1", disciplina |-> "d1", titulo |-> "T3", chunks |-> <<>>] }

PedidoQuizMaterial ==
    [professor |-> "p1", topico |-> "tcp", disciplina |-> "d1", material_ids |-> None]

PedidoFlashcardsMaterial ==
    [professor |-> "p1", topico |-> "tcp", disciplina |-> "d1", material_ids |-> Some({1})]

NextMaterial ==
    \/ \E pd \in UploadsMaterial, amb \in {"limitado", "vs_erro", "ok"} :
          UploadTexto(pd.professor, pd, amb)
    \/ \E id \in MaterialIds, p \in Professores, amb \in AmbienteRemocao :
          RemoverMaterial(id, p, amb)
    \/ GerarQuiz(PedidoQuizMaterial, "ok")
    \/ GerarFlashcards(PedidoFlashcardsMaterial, "ok")
    \/ \E id \in DOMAIN conteudos, amb \in {"vs_erro", "ok"} :
          Regenerar(id, conteudos[id].professor_id, "mais curto", amb)

SpecMaterial == InitBusca /\ [][NextMaterial]_vars

-----------------------------------------------------------------------------
(* Teachers uploading texts through two server processes while materials are
   removed *)

InitIngestao ==
    /\ materiais = <<>>
    /\ enviados = 0
    /\ indice = {}
    /\ conteudos = <<>>
    /\ criados = 0
    /\ tentativas = <<>>
    /\ sessoes = [w \in Processos |-> Ocioso]
    /\ chamada = Ociosa
    /\ resp = Resp(0, "")
    /\ SemLimite
    /\ divisao = Parada

NextIngestao ==
    \/ \E w \in Processos, pd \in UploadsMaterial : GravarMaterial(w, pd)
    \/ \E w \in Processos, amb \in {"vs_erro", "ok"} : IndexarMaterial(w, amb)
    \/ \E id \in MaterialIds, p \in Professores, amb \in AmbienteRemocao :
          RemoverMaterial(id, p, amb)

SpecIngestao == InitIngestao /\ [][NextIngestao]_vars

-----------------------------------------------------------------------------
(* Generation requests of p1 with the backend's answers one by one, and the
   approval of what they store *)

ArrayComChave == [arr |-> <<[str |-> "questoes"]>>]

StrComChave == [str |-> "as questoes"]

Numero == [num |-> 7]

\* The backend's answers: the three failures; the quiz as the whole text; the
\* summary in a code block; the flashcards after the trailing-comma repair;
\* nothing that parses; an array, a string and a number as the whole text.
RespostasBackend ==
    { Timeout, Conexao, StatusErro,
      TextoLLM(Some(ResultadoLLM(QUIZ)), None, None, None),
      TextoLLM(None, Some(ResultadoLLM(RESUMO)), Some(ResultadoLLM(RESUMO)), None),
      TextoLLM(None, None, None, Some(ResultadoLLM(FLASHCARD))),
      TextoLLM(None, None, None, None),
      TextoLLM(Some(ArrayComChave), None, None, None),
      TextoLLM(Some(StrComChave), None, None, None),
      TextoLLM(Some(Numero), None, None, None) }

NextLLM ==
    \/ \E tipo \in TipoConteudo, amb \in {"limitado", "vs_erro", "ok"} :
          IniciarGeracao(tipo, PedidoQuizAluno, amb)
    \/ \E r \in RespostasBackend : PedirBackend(r)
    \/ \E id \in DOMAIN conteudos, m \in ModificacoesAluno :
          Aprovar(id, conteudos[id].professor_id, m)

SpecLLM == Init /\ [][NextLLM]_vars

-----------------------------------------------------------------------------
(* Teachers uploading and removing texts while a quiz request of p1 waits for
   the backend: gerar_quiz awaits the adapter between the context search and
   the query of the material rows, and other requests run meanwhile *)

PedidoQuizExplicito ==
    [professor |-> "p1", topico |-> "tcp", disciplina |-> "d1",
     material_ids |-> Some(MaterialIds)]

NextEmVoo ==
    \/ \E pd \in UploadsMaterial : UploadTexto(pd.professor, pd, "ok")
    \/ \E id \in MaterialIds, p \in Professores : RemoverMaterial(id, p, "ok")
    \/ \E pd \in {PedidoQuizMaterial, PedidoQuizExplicito} : IniciarGeracao(QUIZ, pd, "ok")
    \/ \E r \in {Timeout, TextoLLM(Some(ResultadoLLM(QUIZ)), None, None, None)} :
          PedirBackend(r)

SpecEmVoo == InitBusca /\ [][NextEmVoo]_vars

-----------------------------------------------------------------------------
(* Two students answering p1's quizzes and reading their attempts, while p1
   generates, approves with edits, rejects and regenerates *)

MaxSubmissoes == 2

\* Payload patches of four questions and of none.
PatchQuatro == [questoes |-> <<Questao1, Questao2, Questao3, Questao1>>]

PatchVazio == [questoes |-> <<>>]

ModificacoesNota ==
    { None, Some([conteudo_json |-> [obj |-> PatchQuatro]]),
      Some([conteudo_json |-> [obj |-> PatchVazio]]) }

\* Answers to four questions in either case, the last one wrong; an answer to
\* the second question only, with one under a key no question has.
RespostasNota ==
    { [k \in {"0", "1", "2", "3"} |->
          IF k = "0" THEN "A" ELSE IF k = "1" THEN "b" ELSE IF k = "2" THEN "b" ELSE "b"],
      [k \in {"1", "7"} |-> IF k = "1" THEN "B" ELSE "a"] }

NextNota ==
    \/ conteudos = <<>> /\ GerarQuiz(PedidoQuizAluno, "ok")
    \/ \E id \in DOMAIN conteudos, m \in ModificacoesNota :
          Aprovar(id, conteudos[id].professor_id, m)
    \/ \E id \in DOMAIN conteudos, a \in Alunos, r \in RespostasNota :
          Submeter(id, a, r, "ok", MaxSubmissoes)
    \/ \E a \in Alunos : ObterHistorico(a)
    \/ \E i \in 1..MaxSubmissoes, a \in Alunos : ObterTentativa(i, a)
    \* Once the students are done, p1 rejects and regenerates.
    \/ \E id \in DOMAIN conteudos :
          /\ Len(tentativas) = MaxSubmissoes
          /\ Rejeitar(id, conteudos[id].professor_id, "motivo ok!")
    \/ \E id \in DOMAIN conteudos :
          /\ Len(tentativas) = MaxSubmissoes
          /\ criados < MaxGeracoes + 1
          /\ Regenerar(id, conteudos[id].professor_id, "mais curto", "ok")

SpecNota == Init /\ [][NextNota]_vars

-----------------------------------------------------------------------------
(* A teacher uploading and generating and a student answering through the
   rate limiter, while time goes by *)

PassosDeTempo == {30, 35}

UploadsLimite ==
    { [professor |-> "p1", disciplina |-> "d1", titulo |-> "T1", chunks |-> <<"aa", "b">>],
      [professor |-> "p1", disciplina |-> "d1", titulo |-> "T3", chunks |-> <<>>] }

NextLimite ==
    \/ \E dt \in PassosDeTempo : PassarTempo(dt)
    \/ \E pd \in UploadsLimite :
          /\ pd.chunks # <<>> => enviados < MaxGeracoes
          /\ UploadTextoLimitado(pd)
    \/ \E amb \in {"vs_erro", "ok"} :
          /\ criados < MaxGeracoes
          /\ GerarQuizLimitado(PedidoQuizMaterial, amb)
    \/ \E id \in DOMAIN conteudos : Aprovar(id, conteudos[id].professor_id, None)
    \/ \E id \in 1..MaxGeracoes :
          ResponderQuizLimitado(id, "a1", [k \in {"0"} |-> "a"])

SpecLimite == InitBusca /\ [][NextLimite]_vars

-----------------------------------------------------------------------------
(* Calls of dividir_em_chunks on every short text and configuration *)

\* The texts of spaces and letters, and some with other whitespace.
Textos ==
    UNION { [1..n -> {" ", "a"}] : n \in 0..MaxLen }
      \cup { <<"\n">>, <<"\t", " ">>, <<"a", "\n", "\t", "a">>, <<"\n", "a", "\n">> }

\* 0 <= overlap < tamanho
Configuracoes == { c \in (1..MaxTamanho) \X (0..MaxTamanho) : c[2] < c[1] }

InitDivisao ==
    /\ materiais = <<>>
    /\ enviados = 0
    /\ indice = {}
    /\ conteudos = <<>>
    /\ criados = 0
    /\ tentativas = <<>>
    /\ sessoes = <<>>
    /\ chamada = Ociosa
    /\ resp = Resp(0, "")
    /\ SemLimite
    /\ divisao \in { Entrada(t, c[1], c[2]) : t \in Textos, c \in Configuracoes }

NextDivisao == Comecar \/ Iterar

SpecDivisao == InitDivisao /\ [][NextDivisao]_vars

-----------------------------------------------------------------------------
(* _extrair_json on every short text and on some longer ones *)

TokensCurtos == {"Segue", "ola", " ", "~~~", "{", "}", ",", "q:", "n"}

\* Prose before a fenced json block; a fenced array; trailing commas before
\* ] and }; two filler phrases in the list's order and against it; a fence
\* without JSON before one with it; a trailing comma inside a fence.
TextosLongos ==
    { <<"ola", " ", "~~~", "json", "\n", "{", "q:", "n", "}", "\n", "~~~">>,
      <<"~~~", "[", "{", "}", "]", "~~~">>,
      <<"{", "q:", "[", "n", ",", "]", ",", " ", "}">>,
      <<"Segue", " ", "JSON:", " ", "{", "}">>,
      <<"JSON:", "Segue", "{", "}">>,
      <<"~~~", "ola", "~~~", "~~~", "{", "}", "~~~">>,
      <<"ola", "~~~", "{", "q:", "n", ",", "}", "~~~">>,
      <<"Resposta:", "[", "n", ",", "n", "]", " ">> }

TextosResposta == UNION { [1..n -> TokensCurtos] : n \in 0..MaxTokens } \cup TextosLongos

InitExtracao ==
    /\ materiais = <<>>
    /\ enviados = 0
    /\ indice = {}
    /\ conteudos = <<>>
    /\ criados = 0
    /\ tentativas = <<>>
    /\ sessoes = <<>>
    /\ chamada \in { [fase |-> "texto", texto |-> t] : t \in TextosResposta }
    /\ resp = Resp(0, "")
    /\ SemLimite
    /\ divisao = Parada

NextExtracao == Extrair

SpecExtracao == InitExtracao /\ [][NextExtracao]_vars

-----------------------------------------------------------------------------
(* Properties of the approval state machine *)

\* An id no row has.
IdAusente == MaxConteudos + 1

Finais == {APROVADO, REJEITADO}

\* Approve and reject of a row that is not AGUARDANDO_APROVACAO answer 400 (the
\* owner is told the status forbids it) or 422 and leave the store as it is.
C1_Recusa ==
    \A id \in DOMAIN conteudos, p \in Professores :
        conteudos[id].status # AGUARDANDO_APROVACAO =>
            /\ \A m \in Modificacoes :
                  LET e == RotaAprovar(conteudos, criados, id, p, m)
                  IN  /\ e.resp.http = 400
                      /\ e.conteudos = conteudos
                      /\ p = conteudos[id].professor_id => e.resp.detail = ErroAprovar
            /\ \A mot \in Motivos :
                  LET e == RotaRejeitar(conteudos, criados, id, p, mot)
                  IN  /\ e.resp.http \in {400, 422}
                      /\ e.conteudos = conteudos
                      /\ (p = conteudos[id].professor_id /\ MotivoValido(mot))
                            => e.resp.detail = ErroRejeitar

\* No step changes a row that is APROVADO or REJEITADO, short of deleting it.
C1_Terminal ==
    \A id \in DOMAIN conteudos :
        (conteudos[id].status \in Finais /\ id \in DOMAIN conteudos')
            => conteudos'[id] = conteudos[id]

\* C1: approve and reject fail and change nothing when the artifact is not
\* pending approval, so under any sequence of generate, approve, reject and
\* regenerate calls an Approved artifact stays Approved and a Rejected one
\* stays Rejected.
C1_EstadosFinais == [](C1_Recusa) /\ [][C1_Terminal]_vars

\* The owner's approve of a rejected row was refused.
C1_Witness ==
    /\ resp = Resp(400, ErroAprovar)
    /\ \E id \in DOMAIN conteudos : conteudos[id].status = REJEITADO

\* A row as every creation leaves it, owned by professor.
RecemCriado(c, professor) ==
    /\ c.status = AGUARDANDO_APROVACAO
    /\ c.aprovado_em = None
    /\ c.motivo_rejeicao = None
    /\ c.professor_id = professor

Novos(e) == DOMAIN e.conteudos \ DOMAIN conteudos

\* Whatever the request and whatever the backends answer, the rows a
\* generation or regeneration route adds are pending and the requester's.
C5_Rotas ==
    /\ \A pd \in PedidosQuiz, amb \in Ambiente :
          \A e \in RotaGerarQuiz(conteudos, criados, materiais, indice, pd, amb) :
             \A id \in Novos(e) : RecemCriado(e.conteudos[id], pd.professor)
    /\ \A pd \in PedidosResumo, amb \in Ambiente :
          \A e \in RotaGerarResumo(conteudos, criados, materiais, indice, pd, amb) :
             \A id \in Novos(e) : RecemCriado(e.conteudos[id], pd.professor)
    /\ \A pd \in PedidosFlashcards, amb \in Ambiente :
          \A e \in RotaGerarFlashcards(conteudos, criados, materiais, indice, pd, amb) :
             \A id \in Novos(e) : RecemCriado(e.conteudos[id], pd.professor)
    /\ \A id0 \in ConteudoIds, p \in Professores, a \in Ajustes, amb \in Ambiente :
          \A e \in RotaRegenerar(conteudos, criados, materiais, indice, id0, p, a, amb) :
             \A id \in Novos(e) : RecemCriado(e.conteudos[id], p)

\* No step adds a row that is not pending with aprovado_em and motivo_rejeicao
\* unset.
C5_Passo ==
    \A id \in DOMAIN conteudos' \ DOMAIN conteudos :
        RecemCriado(conteudos'[id], conteudos'[id].professor_id)

\* C5: every artifact created by a generation or a regeneration is stored
\* pending approval, with aprovado_em and motivo_rejeicao unset and owned by the
\* requesting teacher; nothing is created as Approved or Rejected.
C5_CriadoPendente == [](C5_Rotas) /\ [][C5_Passo]_vars

\* A regeneration has just stored its row.
C5_Witness ==
    /\ resp = Resp(201, "")
    /\ criados \in DOMAIN conteudos
    /\ conteudos[criados].topico = TopicoAjustado("tcp", "mais curto")
    /\ conteudos[criados].status = AGUARDANDO_APROVACAO

FalhasGeracao == {ErroNenhumMaterial, ErroBusca, ErroLLM, ErroBanco}

Intacto(e) == e.conteudos = conteudos /\ e.criados = criados

\* A generation route that does not answer 201 leaves the store as it is; it
\* answers 400 when the vector store raises, when no chunk is found, and when
\* the generation adapter raises.
C6_Rotas ==
    /\ \A pd \in PedidosQuiz, amb \in Ambiente :
          \A e \in RotaGerarQuiz(conteudos, criados, materiais, indice, pd, amb) :
             /\ e.resp.http # 201 => Intacto(e)
             /\ amb = "vs_erro" => e.resp = Resp(400, ErroBusca)
             /\ (amb = "llm_erro" /\ pd.disciplina = "d1") => e.resp = Resp(400, ErroLLM)
             /\ (amb # "limitado" /\ amb # "vs_erro" /\ pd.disciplina = "d2")
                   => e.resp = Resp(400, ErroNenhumMaterial)
    /\ \A pd \in PedidosResumo, amb \in Ambiente :
          \A e \in RotaGerarResumo(conteudos, criados, materiais, indice, pd, amb) :
             /\ e.resp.http # 201 => Intacto(e)
             /\ amb = "vs_erro" => e.resp = Resp(400, ErroBusca)
             /\ amb = "llm_erro" => e.resp = Resp(400, ErroLLM)
    /\ \A pd \in PedidosFlashcards, amb \in Ambiente :
          \A e \in RotaGerarFlashcards(conteudos, criados, materiais, indice, pd, amb) :
             /\ e.resp.http # 201 => Intacto(e)
             /\ amb = "vs_erro" => e.resp = Resp(400, ErroBusca)
             /\ (amb = "llm_erro" /\ pd.professor = "p1") => e.resp = Resp(400, ErroLLM)
             /\ (amb # "limitado" /\ amb # "vs_erro" /\ pd.professor = "p2")
                   => e.resp = Resp(400, ErroNenhumMaterial)

\* A step that answers with a generation failure changes no row.
C6_Passo ==
    (resp'.http = 400 /\ resp'.detail \in FalhasGeracao)
        => (conteudos' = conteudos /\ criados' = criados)

\* C6: a generation request that fails because no chunk is retrieved, the
\* vector index raises or the generation adapter fails stores no artifact and
\* changes none.
C6_FalhaNaoPersiste == [](C6_Rotas) /\ [][C6_Passo]_vars

\* The generation adapter has just failed with rows in the store.
C6_Witness ==
    /\ resp = Resp(400, ErroLLM)
    /\ DOMAIN conteudos # {}

TemPatch(m) == m # None /\ "conteudo_json" \in DOMAIN m.some

\* C8: after a successful approve of a row with payload S the status is
\* APROVADO and aprovado_em is set; with a payload patch P the payload has the
\* keys of S and of P, P's value under each key of P and S's under every other
\* key; without edits, or with edits that hold no payload patch, it is S.
C8_AprovarMescla ==
    \A id \in DOMAIN conteudos, p \in Professores, m \in Modificacoes :
        LET e == RotaAprovar(conteudos, criados, id, p, m)
        IN  e.resp.http = 200 =>
              LET S == conteudos[id].conteudo_json
                  R == e.conteudos[id]
              IN  /\ R.status = APROVADO
                  /\ R.aprovado_em # None
                  /\ IF TemPatch(m)
                     THEN LET P == m.some["conteudo_json"].obj
                          IN  /\ DOMAIN R.conteudo_json.obj = DOMAIN S.obj \cup DOMAIN P
                              /\ \A k \in DOMAIN P : R.conteudo_json.obj[k] = P[k]
                              /\ \A k \in DOMAIN S.obj \ DOMAIN P :
                                    R.conteudo_json.obj[k] = S.obj[k]
                     ELSE R.conteudo_json = S

\* A summary approved with the patch: its nested object was replaced whole and
\* the patch's other key was added.
C8_Witness ==
    \E id \in DOMAIN conteudos :
        /\ conteudos[id].tipo = RESUMO
        /\ conteudos[id].status = APROVADO
        /\ conteudos[id].conteudo_json.obj = PatchA
        /\ resp = Resp(200, "")

\* C10: approve, reject, regenerate, get and delete of an artifact by a teacher
\* who does not own it answer exactly as the same request for an id no artifact
\* has, and change no row.
C10_NaoDonoComoAusente ==
    \A id \in DOMAIN conteudos :
      \A p \in Professores \ {conteudos[id].professor_id} :
        /\ \A m \in Modificacoes :
              /\ RotaAprovar(conteudos, criados, id, p, m)
                    = RotaAprovar(conteudos, criados, IdAusente, p, m)
              /\ Intacto(RotaAprovar(conteudos, criados, id, p, m))
        /\ \A mot \in Motivos :
              /\ RotaRejeitar(conteudos, criados, id, p, mot)
                    = RotaRejeitar(conteudos, criados, IdAusente, p, mot)
              /\ Intacto(RotaRejeitar(conteudos, criados, id, p, mot))
        /\ \A a \in Ajustes, amb \in Ambiente :
              /\ RotaRegenerar(conteudos, criados, materiais, indice, id, p, a, amb)
                    = RotaRegenerar(conteudos, criados, materiais, indice, IdAusente, p, a, amb)
              /\ \A e \in RotaRegenerar(conteudos, criados, materiais, indice, id, p, a, amb) :
                    Intacto(e)
        /\ RotaObter(conteudos, criados, id, p) = RotaObter(conteudos, criados, IdAusente, p)
        /\ RotaRemover(conteudos, criados, id, p) = RotaRemover(conteudos, criados, IdAusente, p)
        /\ Intacto(RotaRemover(conteudos, criados, id, p))

\* Every id of the model names a row, so the 404 just given answered a request
\* for a row that exists.
C10_Witness ==
    /\ DOMAIN conteudos = ConteudoIds
    /\ resp = Resp(404, ErroNaoEncontrado)
    /\ \E i, j \in DOMAIN conteudos : conteudos[i].professor_id # conteudos[j].professor_id

-----------------------------------------------------------------------------
(* Properties of what students are given *)

\* The row id is in the store, APROVADO and of kind tipo.
AprovadoDoTipo(id, tipo) ==
    /\ id \in DOMAIN conteudos
    /\ conteudos[id].status = APROVADO
    /\ conteudos[id].tipo = tipo

\* Whatever a read is asked for in this state, every artifact in its answer is
\* an APROVADO row.
C3_Leituras ==
    /\ \A d \in Disciplinas, t \in TiposPedidos \cup {Some(RESUMO), Some(FLASHCARD)} :
          \A r \in listar_conteudos_disciplina(conteudos, d, t) :
             r.http = 200 =>
                \A i \in DOMAIN r.corpo.some :
                   /\ r.corpo.some[i].status = APROVADO
                   /\ AprovadoDoTipo(r.corpo.some[i].id, r.corpo.some[i].tipo)
    /\ \A id \in ConteudoIds \cup {IdAusente} :
          /\ obter_quiz(conteudos, id).http = 200 =>
                /\ AprovadoDoTipo(id, QUIZ)
                /\ obter_quiz(conteudos, id).corpo.some.status = APROVADO
          /\ obter_flashcards(conteudos, id).http = 200 =>
                /\ AprovadoDoTipo(id, FLASHCARD)
                /\ obter_flashcards(conteudos, id).corpo.some.status = APROVADO
          /\ obter_resumo(conteudos, id).http = 200 =>
                /\ AprovadoDoTipo(id, RESUMO)
                /\ obter_resumo(conteudos, id).corpo.some.status = APROVADO

\* Whatever is submitted in this state, it is graded or stored only for an
\* APROVADO quiz.
C3_Submissao ==
    \A id \in ConteudoIds \cup {IdAusente}, a \in Alunos, r \in RespostasAluno,
       amb \in Ambiente :
        LET s == responder_quiz(conteudos, id, a, r, amb)
        IN  (s.resp.http = 201 \/ s.tentativa # None) => AprovadoDoTipo(id, QUIZ)

\* An attempt row is added only for a quiz that is APROVADO when it is added.
C3_Passo ==
    Len(tentativas') > Len(tentativas) =>
        AprovadoDoTipo(tentativas'[Len(tentativas')].conteudo_id, QUIZ)

\* C3: every artifact a student read returns (contents of a subject, quiz,
\* flashcards, summary) is Approved at the time of the read, and a submission
\* is accepted only for an Approved quiz; pending and rejected artifacts are
\* neither returned nor gradable.
C3_SoAprovado == [](C3_Leituras /\ C3_Submissao) /\ [][C3_Passo]_vars

\* A submission was accepted while the store also holds a quiz that is not
\* approved.
C3_Witness ==
    /\ "rota" \in DOMAIN resp
    /\ resp.rota = "responder"
    /\ resp.http = 201
    /\ \E id \in DOMAIN conteudos :
          conteudos[id].tipo = QUIZ /\ conteudos[id].status # APROVADO

Gabarito == {"resposta_correta", "explicacao"}

\* No question of the payload carries its answer or its explanation.
SemGabarito(json) ==
    "questoes" \in DOMAIN json.obj =>
        \A i \in DOMAIN json.obj.questoes : DOMAIN json.obj.questoes[i] \cap Gabarito = {}

\* An artifact as answered to a student shows no answer key, in its payload or
\* in the teacher's edits sent along with it.
SemGabaritoNaResposta(c) ==
    /\ SemGabarito(c.conteudo_json)
    /\ (c.modificacoes_professor # None
        /\ "conteudo_json" \in DOMAIN c.modificacoes_professor.some
        /\ "obj" \in DOMAIN c.modificacoes_professor.some["conteudo_json"])
          => SemGabarito(c.modificacoes_professor.some["conteudo_json"])

\* C4: no student read of artifacts (get quiz, list approved contents of a
\* subject) returns the correct answer or the explanation of a quiz question.
C4_SemGabarito ==
    ("rota" \in DOMAIN resp /\ resp.http = 200) =>
        /\ resp.rota = "quiz" => SemGabaritoNaResposta(resp.corpo.some)
        /\ resp.rota = "listar" =>
              \A i \in DOMAIN resp.corpo.some : SemGabaritoNaResposta(resp.corpo.some[i])

-----------------------------------------------------------------------------
(* Properties of the searches *)

Consultas == {"ccc", "aa"}

\* No ids, no ids given as [], every id of the model, the id of one material
\* of the other teacher when both have uploaded.
FiltrosBusca == FiltrosMateriais \cup {Some({MaxMateriais})}

\* Every document of the result list is an entry of the index owned by
\* professor_id.
SoDoProfessor(documentos, professor_id) ==
    \A i \in DOMAIN documentos :
        /\ documentos[i].metadata.professor_id = professor_id
        /\ \E e \in indice : e.texto = documentos[i].texto
                             /\ e.metadata = documentos[i].metadata

\* Whatever is searched in this state: buscar_similares called directly, by
\* _buscar_contexto, and by buscar_semantica for each teacher it asks for.
C2_Buscas ==
    \A A \in Professores, q \in Consultas, f \in FiltrosBusca :
        /\ \A k \in 1..MaxK, d \in {None, Some("d1")} :
              \A r \in buscar_similares(indice, q, A, k, d, f) : SoDoProfessor(r, A)
        /\ \A r \in DocumentosContexto(indice, A, q, "d1", f) : SoDoProfessor(r, A)

\* Every trecho a student is answered with is an entry of a teacher the search
\* asked for, in the disciplina asked for.
C2_Aluno ==
    \A d \in Disciplinas, q \in Consultas :
        \A r \in buscar_semantica(conteudos, indice, d, q, "ok") :
            r.http = 200 =>
               \A i \in DOMAIN r.corpo.some :
                  \E e \in indice :
                     /\ e.texto = r.corpo.some[i].texto
                     /\ e.metadata.titulo = r.corpo.some[i].titulo
                     /\ e.metadata.disciplina = d
                     /\ e.metadata.professor_id \in ProfessoresAprovados(conteudos, d)

\* The answer of the last direct search holds entries of the professor it was
\* made for only.
C2_Resposta ==
    ("rota" \in DOMAIN resp /\ resp.rota = "buscar_similares")
        => SoDoProfessor(resp.documentos, resp.professor_id)

\* C2: for every query, every k and every subject or material-id filter, ids of
\* another teacher's materials included, a search made for teacher A returns
\* only index entries whose metadata professor_id is A; so do the search of the
\* teacher's context retrieval and each per-teacher search of the student's.
C2_Isolamento == C2_Buscas /\ C2_Aluno /\ C2_Resposta

\* p1 searched with the ids of both teachers' materials and got an entry of its
\* own, while an entry of p2 in the index is nearer to the query.
C2_Witness ==
    /\ "rota" \in DOMAIN resp
    /\ resp.rota = "buscar_similares"
    /\ resp.professor_id = "p1"
    /\ resp.documentos # <<>>
    /\ \E e \in indice :
          /\ e.metadata.professor_id = "p2"
          /\ Distancia(gerar_embedding(e.texto), gerar_embedding("ccc"))
                < resp.documentos[1].distancia

-----------------------------------------------------------------------------
(* Properties of approve and reject under interleaving *)

StatusDe(op) == IF op = "aprovar" THEN APROVADO ELSE REJEITADO

\* A request for a pending row passes the check whatever the other process
\* holds; a commit on a row still stored answers 200 and leaves the row with
\* the committer's status, whatever status the row had by then.
C7_Passo ==
    \A w \in Processos :
        /\ (/\ sessoes[w].fase # "lido"
            /\ sessoes'[w] # sessoes[w]
            /\ sessoes'[w].conteudo_id \in DOMAIN conteudos
            /\ conteudos[sessoes'[w].conteudo_id].status = AGUARDANDO_APROVACAO)
              => sessoes'[w].fase = "lido"
        /\ (/\ sessoes[w].fase = "lido"
            /\ sessoes'[w].fase = "feito"
            /\ sessoes[w].conteudo_id \in DOMAIN conteudos)
              => /\ sessoes'[w].resposta = Resp(200, "")
                 /\ conteudos'[sessoes[w].conteudo_id].status = StatusDe(sessoes[w].op)

\* C7: approve and reject read, check and write without guarding the status:
\* two calls on the same pending artifact that interleave between the read and
\* the commit both pass the check and both succeed, and the stored status is
\* the last writer's.
C7_UltimoVence == [][C7_Passo]_vars

\* An approve and a reject of the same row were both answered 200; the row is
\* rejected and also carries the approval's timestamp.
C7_Witness ==
    /\ sessoes["w1"].fase = "feito" /\ sessoes["w2"].fase = "feito"
    /\ sessoes["w1"].conteudo_id = sessoes["w2"].conteudo_id
    /\ sessoes["w1"].op = "aprovar" /\ sessoes["w2"].op = "rejeitar"
    /\ sessoes["w1"].resposta = Resp(200, "") /\ sessoes["w2"].resposta = Resp(200, "")
    /\ sessoes["w1"].conteudo_id \in DOMAIN conteudos
    /\ conteudos[sessoes["w1"].conteudo_id].status = REJEITADO
    /\ conteudos[sessoes["w1"].conteudo_id].aprovado_em # None

-----------------------------------------------------------------------------
(* Properties of the stored rejection reason *)

\* C9: every artifact in status Rejected has a stored rejection reason of at
\* least 10 characters, whether the reject came through the route or through
\* a direct call of the service.
C9_MotivoMinimo ==
    \A id \in DOMAIN conteudos :
        conteudos[id].status = REJEITADO =>
            /\ conteudos[id].motivo_rejeicao # None
            /\ Len(conteudos[id].motivo_rejeicao.some) >= MinMotivo

-----------------------------------------------------------------------------
(* Properties of regeneration *)

\* What a regeneration outcome answers and adds.
Acrescimo(cs, e) == <<e.resp, [i \in DOMAIN e.conteudos \ DOMAIN cs |-> e.conteudos[i]]>>

\* The store with the status of row id set to s.
ComStatus(cs, id, s) == [cs EXCEPT ![id].status = s]

\* Whatever the owner asks in this state: a regeneration answering 201 has added
\* one row under an id never issued before, pending, and kept every other row;
\* any other answer leaves the store as it is; and what is answered and added
\* does not depend on the original's status.
C11_Rotas ==
    /\ DOMAIN conteudos \subseteq 1..criados
    /\ \A id \in DOMAIN conteudos, p \in Professores, a \in Ajustes, amb \in Ambiente :
          /\ \A e \in RotaRegenerar(conteudos, criados, materiais, indice, id, p, a, amb) :
                IF e.resp.http = 201
                THEN /\ DOMAIN e.conteudos = DOMAIN conteudos \cup {e.criados}
                     /\ e.criados > criados
                     /\ e.conteudos[e.criados].status = AGUARDANDO_APROVACAO
                     /\ \A i \in DOMAIN conteudos : e.conteudos[i] = conteudos[i]
                ELSE Intacto(e)
          /\ \A s \in StatusConteudo :
                { Acrescimo(conteudos, e) :
                    e \in RotaRegenerar(conteudos, criados, materiais, indice, id, p, a, amb) }
                  = { Acrescimo(conteudos, e) :
                        e \in RotaRegenerar(ComStatus(conteudos, id, s), criados, materiais,
                                            indice, id, p, a, amb) }

\* A step that adds a row adds one row and changes no other.
C11_Passo ==
    DOMAIN conteudos' # DOMAIN conteudos /\ DOMAIN conteudos \subseteq DOMAIN conteudos' =>
        /\ DOMAIN conteudos' = DOMAIN conteudos \cup {criados'}
        /\ criados' = criados + 1
        /\ \A i \in DOMAIN conteudos : conteudos'[i] = conteudos[i]

\* C11: regenerate of an artifact of any status, when it succeeds, adds exactly
\* one new artifact under a fresh id, pending approval, and leaves the original
\* (status, payload, topic, material ids, aprovado_em, motivo_rejeicao) as it
\* was; when it fails no artifact is added or changed.
C11_RegenerarPreserva == [](C11_Rotas) /\ [][C11_Passo]_vars

\* The regeneration of a rejected artifact has just stored its row.
C11_Witness ==
    /\ resp = Resp(201, "")
    /\ criados \in DOMAIN conteudos
    /\ \E id \in DOMAIN conteudos :
          /\ conteudos[id].status = REJEITADO
          /\ conteudos[criados].topico = TopicoAjustado(conteudos[id].topico, "mais curto")
          /\ conteudos[criados].status = AGUARDANDO_APROVACAO

-----------------------------------------------------------------------------
(* Properties of the materials a regeneration uses *)

\* The rows a 201 outcome e of a route has added.
Criado(e) == e.conteudos[e.criados]

\* Every document of every result list the context search of a regeneration
\* of row c may get comes from a material of ids.
ContextoSoDe(c, ajustes, ids) ==
    \A r \in DocumentosContexto(indice, c.professor_id, TopicoAjustado(c.topico, ajustes),
                                c.disciplina, Some(c.material_fonte_ids)) :
        \A i \in DOMAIN r : r[i].metadata.material_id \in ids

AindaDoProfessor(ids, professor_id) ==
    {m \in ids : m \in DOMAIN materiais /\ materiais[m].professor_id = professor_id}

-----------------------------------------------------------------------------
(* Properties of the materials and their index entries *)

\* C13: when the vector store's add fails during an upload, the upload answers
\* with an error and leaves no Material row of that upload in the store.
C13_FalhaNaoGrava == [][resp' = Resp(500, ErroIndexar) => materiais' = materiais]_vars

\* An id no material has.
MaterialAusente == MaxMateriais + 1

EntradasDoMaterial(idx, material_id) == {e \in idx : e.metadata.material_id = material_id}

\* Whatever removal is asked in this state.  The owner's removal answered 204
\* leaves neither the row nor an index entry of the material, and every other
\* row and entry as it was; when the vector store raises, 500 and nothing is
\* removed; when the delete's commit fails, the entries are gone and the row
\* is kept, never the reverse.  A removal by another teacher answers as for an
\* id no material has and removes nothing.
C14_Rotas ==
    \A id \in DOMAIN materiais, p \in Professores, amb \in AmbienteRemocao :
        LET e == remover_material(materiais, enviados, indice, id, p, amb)
        IN  IF p = materiais[id].professor_id
            THEN /\ e.resp.http = 204 <=> amb = "ok"
                 /\ e.resp.http = 204 =>
                       /\ e.materiais = Apagar(materiais, id)
                       /\ e.indice = indice \ EntradasDoMaterial(indice, id)
                 /\ amb = "vs_erro" =>
                       e = EfeitoMaterial(Resp(500, ErroRemover), materiais, enviados, indice)
                 /\ id \notin DOMAIN e.materiais => EntradasDoMaterial(e.indice, id) = {}
                 /\ amb = "db_erro" =>
                       /\ e.resp.http = 500
                       /\ e.materiais = materiais
                       /\ EntradasDoMaterial(e.indice, id) = {}
            ELSE /\ e = remover_material(materiais, enviados, indice, MaterialAusente, p, amb)
                 /\ e = EfeitoMaterial(Resp(404, ErroMaterial), materiais, enviados, indice)

\* A step that removes a row leaves no index entry of it.
C14_Passo ==
    \A id \in DOMAIN materiais \ DOMAIN materiais' :
        EntradasDoMaterial(indice', id) = {}

\* C14: the removal of a material by its owner removes the material's index
\* entries before its row; after it succeeds neither the row nor any index
\* entry of the material exists; when the index removal fails the row is kept;
\* a removal by a teacher who does not own it answers not found and removes
\* nothing from the index or the store.
C14_RemoverEmCascata == [](C14_Rotas) /\ [][C14_Passo]_vars

\* A material has just been removed by its owner, and another material and
\* its entries are still there.
C14_Witness ==
    /\ resp = Resp(204, "")
    /\ \E id \in 1..enviados : id \notin DOMAIN materiais
    /\ \E id \in DOMAIN materiais : EntradasDoMaterial(indice, id) # {}

-----------------------------------------------------------------------------
(* Properties of the generation adapter *)

EmCurso == chamada.fase \in {"pedindo", "fim"}

\* The counts of one type-specific call: at most MaxRetries POSTs in one
\* gerar_resposta and TentativasFormato calls of gerar_resposta, so no POST
\* after the ninth; within one gerar_resposta another POST follows only a
\* timeout or a generic error, and none follows a response text.
C15_Limites ==
    EmCurso =>
        /\ chamada.attempt < TentativasFormato
        /\ chamada.tentativa < MaxRetries
        /\ chamada.pedidos <= MaxRetries * TentativasFormato
        /\ chamada.fase = "pedindo" =>
              /\ chamada.pedidos < MaxRetries * TentativasFormato
              /\ chamada.tentativa > 0 => chamada.ultima \in {Timeout, StatusErro}
              /\ "texto" \in DOMAIN chamada.ultima => chamada.tentativa = 0

\* A call that is over has returned a payload or raised LLMError.
C15_Termino ==
    chamada.fase = "fim" =>
        \/ "payload" \in DOMAIN chamada.resultado
        \/ chamada.resultado = [excecao |-> "LLMError"]

\* C15: one gerar_resposta makes at most 3 POSTs, returns on the first
\* response and makes another POST only after a timeout or a generic error;
\* one gerar_quiz / gerar_resumo / gerar_flashcards calls it at most 3 times,
\* so makes at most 9 POSTs, and ends by returning a payload that passed the
\* validation or by raising LLMError.
C15_TentativasLimitadas == C15_Limites /\ C15_Termino

\* C16: after a POST that met ConnectError no other POST is made, by
\* gerar_resposta or by the type-specific call around it: the call is over,
\* with LLMError, after one POST when the backend refuses the first.
C16_ConexaoSemNovaTentativa ==
    (EmCurso /\ chamada.ultima = Conexao) =>
        /\ chamada.fase = "fim"
        /\ chamada.resultado = [excecao |-> "LLMError"]

\* C17: every stored payload is a JSON object holding the key of its kind,
\* questoes, resumo or flashcards, whatever JSON the backend's text parses to
\* and after an approval with a payload patch.
C17_PayloadComChave ==
    \A id \in DOMAIN conteudos :
        /\ "obj" \in DOMAIN conteudos[id].conteudo_json
        /\ ChaveDe(conteudos[id].tipo) \in DOMAIN conteudos[id].conteudo_json.obj

-----------------------------------------------------------------------------
(* Properties of quiz grading and of the attempt records *)

\* The questions of a stored quiz payload.
Questoes(cs, id) == cs[id].conteudo_json.obj.questoes

\* An approved quiz of at least one question, each with its correct answer.
QuizCorrigivel(cs, id) ==
    /\ BuscarAprovado(cs, id, QUIZ) # None
    /\ "obj" \in DOMAIN cs[id].conteudo_json
    /\ "questoes" \in DOMAIN cs[id].conteudo_json.obj
    /\ Questoes(cs, id) # <<>>
    /\ \A i \in DOMAIN Questoes(cs, id) : "resposta_correta" \in DOMAIN Questoes(cs, id)[i]

\* The indices whose answer is present and is the correct one but for case.
Corretas(questoes, respostas) ==
    { i \in 0..(Len(questoes) - 1) :
         /\ Str(i) \in DOMAIN respostas
         /\ Lower(respostas[Str(i)]) = Lower(questoes[i + 1].resposta_correta) }

\* Answer maps over present, missing and out-of-range keys, in upper and lower
\* case, and one with an empty answer.
TodasRespostas ==
    UNION { [K -> {"A", "b"}] : K \in SUBSET {"0", "3", "7"} }
        \cup RespostasNota
        \cup { [k \in {"0", "1"} |-> IF k = "0" THEN "" ELSE "B"] }

C18_Rota ==
    \A id \in DOMAIN conteudos : QuizCorrigivel(conteudos, id) =>
        \A r \in TodasRespostas :
            LET s == responder_quiz(conteudos, id, "a1", r, "ok")
                n == Len(Questoes(conteudos, id))
                c == Cardinality(Corretas(Questoes(conteudos, id), r))
            IN  /\ s.resp.http = 201
                /\ s.tentativa # None
                /\ s.tentativa.some.pontuacao * n = 100 * c
                /\ s.tentativa.some.pontuacao \in 0..100
                /\ (n = 4 /\ c = 3) => s.tentativa.some.pontuacao = 75
                /\ r \in RespostasNota =>
                      s.tentativa.some.pontuacao
                        = responder_quiz(conteudos, id, "a2", r, "ok").tentativa.some.pontuacao
                /\ s.resp.corpo.some.detalhes.total = n
                /\ s.resp.corpo.some.detalhes.acertos = c

\* The attempt a step stores carries the score of the quiz as it was stored
\* when the step was taken.
C18_Passo ==
    Len(tentativas') = Len(tentativas) + 1 =>
        LET t == tentativas'[Len(tentativas')]
        IN  /\ QuizCorrigivel(conteudos, t.conteudo_id)
            /\ t.pontuacao * Len(Questoes(conteudos, t.conteudo_id))
                 = 100 * Cardinality(Corretas(Questoes(conteudos, t.conteudo_id),
                                              t.respostas_json))

\* C18: grading an approved quiz of n >= 1 questions with any answer map gives
\* the score 100 * c / n, c being the number of indices in 0..n-1 whose answer
\* is present and equals the stored correct answer but for letter case; missing
\* answers and answers under keys no question has cause no error; the score is
\* in 0..100 and depends on the quiz and the answers only; three correct
\* answers out of four give 75.
C18_Pontuacao == [](C18_Rota) /\ [][C18_Passo]_vars

\* A student has just answered a quiz of four questions with three correct
\* answers, in upper and lower case, and got 75.
C18_Witness ==
    /\ "rota" \in DOMAIN resp
    /\ resp.rota = "responder"
    /\ resp.http = 201
    /\ resp.corpo.some.detalhes.total = 4
    /\ resp.corpo.some.detalhes.acertos = 3
    /\ resp.corpo.some.tentativa.pontuacao = 75
    /\ tentativas # <<>>
    /\ tentativas[Len(tentativas)].pontuacao = 75

\* The stored quiz with its payload replaced by one that has no questions key.
SemChave(cs, id) == [cs EXCEPT ![id].conteudo_json = [obj |-> [titulo |-> "Quiz"]]]

\* An approved quiz whose payload has no question.
QuizVazio(cs, id) ==
    /\ BuscarAprovado(cs, id, QUIZ) # None
    /\ "obj" \in DOMAIN cs[id].conteudo_json
    /\ \/ "questoes" \notin DOMAIN cs[id].conteudo_json.obj
       \/ Questoes(cs, id) = <<>>

Recusada(s) == s.resp.http >= 400 /\ s.resp.corpo = None /\ s.tentativa = None

C19_Rota ==
    \A id \in DOMAIN conteudos, a \in Alunos, r \in RespostasNota \cup {<<>>} :
        /\ QuizVazio(conteudos, id) => Recusada(responder_quiz(conteudos, id, a, r, "ok"))
        /\ BuscarAprovado(conteudos, id, QUIZ) # None
             => /\ QuizVazio(SemChave(conteudos, id), id)
                /\ Recusada(responder_quiz(SemChave(conteudos, id), id, a, r, "ok"))

\* No step stores an attempt at a quiz without questions, and the step that
\* answers that a quiz has none stores nothing.
C19_Passo ==
    /\ Len(tentativas') > Len(tentativas)
         => ~QuizVazio(conteudos, tentativas'[Len(tentativas')].conteudo_id)
    /\ resp' = RespAluno("responder", 500, ErroSemQuestoes, None)
         => tentativas' = tentativas

\* C19: grading a quiz whose payload has zero questions, or no questions key,
\* fails with an error and stores no attempt; no score, 0 or other, is given
\* for such a quiz.
C19_QuizVazioRecusado == [](C19_Rota) /\ [][C19_Passo]_vars

\* A student has just been refused the grading of an approved quiz that has
\* no question, and no attempt at that quiz is stored.
C19_Witness ==
    /\ resp = RespAluno("responder", 500, ErroSemQuestoes, None)
    /\ \E id \in DOMAIN conteudos :
          /\ QuizVazio(conteudos, id)
          /\ \A i \in DOMAIN tentativas : tentativas[i].conteudo_id # id

\* resp is the answer of a submission that was graded.
Aceita(r) == "rota" \in DOMAIN r /\ r.rota = "responder" /\ r.http = 201

\* Every stored score is within 0..100, and the route grades a submission
\* exactly when it has an attempt to store.
C20_Pontuacoes ==
    /\ \A i \in DOMAIN tentativas : tentativas[i].pontuacao \in 0..100
    /\ \A id \in DOMAIN conteudos, a \in Alunos, r \in RespostasNota :
          LET s == responder_quiz(conteudos, id, a, r, "ok")
          IN  /\ s.resp.http = 201 <=> s.tentativa # None
              /\ s.tentativa # None =>
                    /\ s.resp.corpo.some.tentativa = s.tentativa.some
                    /\ s.tentativa.some.aluno_id = a
                    /\ s.tentativa.some.conteudo_id = id
                    /\ s.tentativa.some.respostas_json = r

\* A step keeps every stored attempt as it is, and adds one attempt, the one
\* it answers with, exactly when it is a graded submission.
C20_Passo ==
    /\ \A i \in DOMAIN tentativas :
          /\ i \in DOMAIN tentativas'
          /\ tentativas'[i].aluno_id = tentativas[i].aluno_id
          /\ tentativas'[i].conteudo_id = tentativas[i].conteudo_id
          /\ tentativas'[i].respostas_json = tentativas[i].respostas_json
          /\ tentativas'[i].pontuacao = tentativas[i].pontuacao
    /\ Len(tentativas') \in {Len(tentativas), Len(tentativas) + 1}
    /\ Len(tentativas') = Len(tentativas) + 1
         => /\ Aceita(resp')
            /\ tentativas'[Len(tentativas')] = resp'.corpo.some.tentativa
    /\ (Aceita(resp') /\ resp' # resp) => Len(tentativas') = Len(tentativas) + 1

\* C20: each graded submission stores exactly one attempt; no later operation
\* (reading the history or an attempt, further submissions by any student,
\* approve, reject, regenerate) changes a stored attempt's student, quiz,
\* answers or score; every stored score is in 0..100.
C20_TentativaImutavel == [](C20_Pontuacoes) /\ [][C20_Passo]_vars

\* Two attempts at the same quiz are stored, the second one by the student of
\* the first with other answers, and the first has just been read again.
C20_Witness ==
    /\ Len(tentativas) = 2
    /\ tentativas[1].aluno_id = tentativas[2].aluno_id
    /\ tentativas[1].conteudo_id = tentativas[2].conteudo_id
    /\ tentativas[1].respostas_json # tentativas[2].respostas_json
    /\ "rota" \in DOMAIN resp
    /\ resp.rota = "tentativa"
    /\ resp.http = 200
    /\ resp.corpo.some.id = 1

-----------------------------------------------------------------------------
(* Properties of the rate limiter *)

\* The admitted actions of u with timestamp in (t - Janela, t].
Admissoes(u, t) ==
    {i \in DOMAIN Pedidos(admitidos, u) :
        admitidos[u][i] > t - Janela /\ admitidos[u][i] <= t}

Identidades == Professores \cup Alunos

C21_Janela ==
    /\ \A u \in DOMAIN admitidos, t \in 0..(MaxTempo + Janela) :
          Cardinality(Admissoes(u, t)) <= requests_per_minute
    \* a check of v leaves u's list and u's answer as they were
    /\ \A u \in Identidades : \A v \in Identidades \ {u} :
          LET depois == is_allowed(limitador, v, relogio).requests
          IN  /\ Pedidos(depois, u) = Pedidos(limitador, u)
              /\ is_allowed(depois, u, relogio).permitido
                   = is_allowed(limitador, u, relogio).permitido
    \* a refused check keeps timestamps it had and adds none
    /\ \A u \in Identidades :
          LET d == is_allowed(limitador, u, relogio)
          IN  ~d.permitido =>
                 \A i \in DOMAIN d.requests[u] :
                    \E j \in DOMAIN limitador[u] : limitador[u][j] = d.requests[u][i]

Recusa429(r) == r.http = 429

\* A step answered 429 records no timestamp and leaves the stores alone; a
\* step changes the list of at most one identity.
C21_Passo ==
    /\ Recusa429(resp') =>
          /\ admitidos' = admitidos
          /\ \A u \in DOMAIN limitador' : \A i \in DOMAIN limitador'[u] :
                \E j \in DOMAIN Pedidos(limitador, u) : limitador[u][j] = limitador'[u][i]
          /\ UNCHANGED <<materiais, enviados, indice, conteudos, criados, tentativas>>
    /\ admitidos' # admitidos => ~Recusa429(resp')
    /\ \E v \in Identidades : \A u \in Identidades \ {v} :
          /\ Pedidos(limitador', u) = Pedidos(limitador, u)
          /\ Pedidos(admitidos', u) = Pedidos(admitidos, u)

\* C21: for every identity and every instant t, at most requests_per_minute
\* of its admitted actions have a timestamp in (t - 60 s, t]; a refused check
\* records no timestamp; the checks of one identity do not change whether
\* another identity's action is admitted; a rate-limited generation, upload
\* or grading request changes nothing else.
C21_LimitePorJanela == [](C21_Janela) /\ [][C21_Passo]_vars

\* p1 has just been refused after having been admitted more often than the
\* limit, over more than one window, and a1 was admitted meanwhile.
C21_Witness ==
    /\ resp = Resp(429, ErroRateLimit)
    /\ "p1" \in DOMAIN admitidos
    /\ Len(admitidos["p1"]) > requests_per_minute
    /\ ~is_allowed(limitador, "p1", relogio).permitido
    /\ "a1" \in DOMAIN admitidos
    /\ is_allowed(limitador, "a1", relogio).permitido

-----------------------------------------------------------------------------
(* Properties of dividir_em_chunks *)

\* The call has returned.
Terminou == divisao.fase = "fim"

\* C22: chunk returns the empty sequence for the empty text and for every
\* text of whitespace only, and no returned chunk is empty after trimming.
C22_SemChunkVazio ==
    /\ Terminou /\ Normalizar(divisao.bruto) = <<>> => divisao.chunks = <<>>
    /\ \A i \in DOMAIN divisao.chunks : Strip(divisao.chunks[i]) # <<>>

\* Position p of the text is inside the slice texto[j[1]:j[2]].
Dentro(p, j, n) == Indice(j[1], n) <= p /\ p < Indice(j[2], n)

\* C23: when the call returns, every non-space position of the normalized
\* text lies inside the window of some chunk, each window starts at the end
\* of the one before minus overlap, and the last one ends at the end of the
\* text.
C23_Cobertura ==
    (Terminou /\ divisao.passos > 0) =>
        LET n == Len(divisao.texto)
            js == divisao.janelas
        IN  /\ \A p \in 0..(n - 1) :
                  divisao.texto[p + 1] # " " => \E i \in DOMAIN js : Dentro(p, js[i], n)
            /\ \A i \in 1..(Len(js) - 1) : js[i + 1][1] = js[i][2] - divisao.overlap
            /\ js[Len(js)][2] >= n

\* C24 as stated: every text of length at most maxLength gives exactly one
\* element, the normalized text, and every chunk has at most maxLength
\* characters.
C24_TextoCurtoUmChunk ==
    /\ Terminou /\ Len(divisao.bruto) <= divisao.tamanho
          => divisao.chunks = <<Normalizar(divisao.bruto)>>
    /\ \A i \in DOMAIN divisao.chunks : Len(divisao.chunks[i]) <= divisao.tamanho

\* C24: for every text whose normalized form is not empty and has at most
\* maxLength characters, chunk returns exactly one element, the text with its
\* whitespace runs collapsed to one space and trimmed; the empty text gives no
\* element; every returned chunk has at most maxLength characters.
C24_TextoCurto ==
    /\ Terminou /\ divisao.bruto = <<>> => divisao.chunks = <<>>
    /\ (/\ Terminou
        /\ Normalizar(divisao.bruto) # <<>>
        /\ Len(Normalizar(divisao.bruto)) <= divisao.tamanho)
          => divisao.chunks = <<Normalizar(divisao.bruto)>>
    /\ \A i \in DOMAIN divisao.chunks : Len(divisao.chunks[i]) <= divisao.tamanho

\* A text longer than tamanho has been returned as one chunk, its whitespace
\* collapsed and trimmed to tamanho characters or fewer.
C24_Witness ==
    /\ Terminou
    /\ Len(divisao.bruto) > divisao.tamanho
    /\ divisao.chunks = <<Normalizar(divisao.bruto)>>
    /\ Len(divisao.chunks[1]) \in 2..divisao.tamanho

\* C26: the window start strictly increases on every turn of the loop, so
\* the call returns after finitely many turns.
C26_InicioCresce ==
    [][divisao'.passos = divisao.passos + 1 => divisao'.inicio > divisao.inicio]_vars

-----------------------------------------------------------------------------
(* Properties of the JSON extraction *)

\* The four strings of the claim, in its order: the text without the leading
\* filler phrases, the contents of the code block, the text from the first {
\* to the last }, and that with the trailing commas removed.  <<>> stands for
\* a string that is not there; it does not parse.
Camadas(bruto) ==
    LET texto == RemoverPrefixos(Strip(bruto), 1)
        i == IF Posicoes(texto, "{") # {} THEN Minimo(Posicoes(texto, "{")) ELSE 0
        j == IF Posicoes(texto, "}") # {} THEN Maximo(Posicoes(texto, "}")) ELSE 0
        entre == IF i > 0 /\ j > i THEN SubSeq(texto, i, j) ELSE <<>>
    IN  << texto,
           IF code_block(texto) = None THEN <<>> ELSE code_block(texto).some,
           entre,
           RemoverVirgulas(RemoverVirgulas(entre, "}"), "]") >>

\* C25: the extraction returns the first successful parse among the four
\* strings in their order, and fails when none parses; prose followed by a
\* fenced json block gives the object in the block.
C25_PrimeiraCamada ==
    chamada.fase = "extraido" =>
        LET cs == Camadas(chamada.texto)
            boas == {k \in 1..4 : loads(cs[k]) # None}
        IN  /\ boas = {} => chamada.resultado = None
            /\ boas # {} => chamada.resultado = loads(cs[Minimo(boas)])
            /\ chamada.texto
                 = <<"ola", " ", "~~~", "json", "\n", "{", "q:", "n", "}", "\n", "~~~">>
                 => chamada.resultado = Some(<<"{", "q:", "n", "}">>)

\* The extraction has returned the array inside a fence, a text whose braces
\* also parse.
C25_Witness ==
    /\ chamada.fase = "extraido"
    /\ chamada.texto = <<"~~~", "[", "{", "}", "]", "~~~">>
    /\ chamada.resultado = Some(<<"[", "{", "}", "]">>)

-----------------------------------------------------------------------------
(* Properties of the approval columns of ConteudoGerado *)

\* C27: in every reachable state, also after approve and reject calls on the
\* same artifact were interleaved, an artifact has aprovado_em set exactly
\* when its status is APROVADO and has motivo_rejeicao set only when its
\* status is REJEITADO.
C27_ColunasCoerentes ==
    \A id \in DOMAIN conteudos :
        /\ conteudos[id].aprovado_em # None <=> conteudos[id].status = APROVADO
        /\ conteudos[id].motivo_rejeicao # None => conteudos[id].status = REJEITADO

-----------------------------------------------------------------------------
(* Properties of the material ids a generation stores *)

\* C28: every artifact a generation persists has at least one material id and
\* every id in it names, at that moment, a material of the artifact's owner
\* (explicit ids of other teachers are dropped), also when materials are
\* removed while the generation waits for the backend.
C28_FontesDoDono ==
    [][\A id \in DOMAIN conteudos' \ DOMAIN conteudos :
          LET c == conteudos'[id]
          IN  /\ c.material_fonte_ids # {}
              /\ \A m \in c.material_fonte_ids :
                    /\ m \in DOMAIN materiais'
                    /\ materiais'[m].professor_id = c.professor_id]_vars

\* The second half of C28 alone: the ids stored name materials of the owner.
FontesSoDoDono ==
    [][\A id \in DOMAIN conteudos' \ DOMAIN conteudos :
          \A m \in conteudos'[id].material_fonte_ids :
              /\ m \in DOMAIN materiais'
              /\ materiais'[m].professor_id = conteudos'[id].professor_id]_vars

-----------------------------------------------------------------------------
(* Properties of the attempt rows and their quizzes *)

\* C29: in every reachable state every attempt row references an existing
\* artifact of kind QUIZ whose status is APROVADO: attempts are created only
\* for approved quizzes, removing an artifact removes its attempts, and no
\* operation takes a quiz with attempts out of APROVADO.
C29_TentativaDeQuizAprovado ==
    \A i \in DOMAIN tentativas :
        /\ tentativas[i].conteudo_id \in DOMAIN conteudos
        /\ conteudos[tentativas[i].conteudo_id].tipo = QUIZ
        /\ conteudos[tentativas[i].conteudo_id].status = APROVADO

-----------------------------------------------------------------------------
(* Properties of the index entries and their materials *)

\* C30: after any sequence or interleaving of uploads and removals, every
\* index entry's material_id names a Material row with the entry's
\* professor_id and disciplina, and no two entries share an id.
C30_SemEntradaOrfa ==
    /\ \A e \in indice :
          /\ e.metadata.material_id \in DOMAIN materiais
          /\ materiais[e.metadata.material_id].professor_id = e.metadata.professor_id
          /\ materiais[e.metadata.material_id].disciplina = e.metadata.disciplina
    /\ \A e \in indice : \A f \in indice : e.id = f.id => e = f

====
